---- MODULE Spec2Model ----
(***************************************************************************)
(* Three-tier indexing and hierarchical routing engine:                    *)
(*   SemanticChunker  (backend/src/processors/semanticChunker.ts)          *)
(*   IndexBuilder     (same file, second half)                             *)
(*   HierarchicalRouter (backend/src/rag/geminiGenerator.ts, second half)  *)
(*                                                                         *)
(* Numbers: scores are kept as scaled integers.  A Level-1 signal is in    *)
(* hundredths, a Level-1 total in thousandths (0.3*s = 3*s100/1000), a     *)
(* Level-2 score in millionths.  Token counts are plain integers.          *)
(***************************************************************************)
EXTENDS Integers, Sequences, FiniteSets, TLC

(***************************************************************************)
(* JavaScript values                                                       *)
(***************************************************************************)
\* A value that may be undefined or null is a sequence: <<>> when it is
\* absent, <<v>> when it is v.
Absent  == <<>>
Some(v) == <<v>>
NONE    == "none"

\* lower-case property names every plain object inherits
ObjectPrototypeKeys == {"constructor", "__proto__"}

\* obj[key] on an object made by JSON.parse is an own property, or an
\* inherited member (truthy, not iterable), or undefined
Inherits(obj, key) == key \notin DOMAIN obj /\ key \in ObjectPrototypeKeys

\* a > b in JavaScript when b may be undefined (undefined -> NaN -> false)
JsGt(a, b) == b # Absent /\ a > b[1]

Min(a, b) == IF a < b THEN a ELSE b

\* a * b = q * c + r with 0 <= r < c, for 0 <= a < c, without forming a * b
\* (the product does not fit the checker's integers)
RECURSIVE MulDivRem(_, _, _)
MulDivRem(a, b, c) ==
    IF b = 0 THEN [q |-> 0, r |-> 0]
    ELSE LET h == MulDivRem(a, b \div 2, c)
             t == 2 * h.r + (b % 2) * a
         IN  [q |-> 2 * h.q + t \div c, r |-> t % c]

\* Math.floor(a * b / c)
MulDiv(a, b, c) == (a \div c) * b + MulDivRem(a % c, b, c).q

RECURSIVE Flatten(_)
Flatten(ss) == IF ss = <<>> THEN <<>> ELSE Head(ss) \o Flatten(Tail(ss))

RECURSIVE Dedup(_)
\* [...new Set(s)]: first occurrences, in order
Dedup(s) ==
    IF s = <<>> THEN <<>>
    ELSE LET front == Dedup(SubSeq(s, 1, Len(s) - 1))
             x     == s[Len(s)]
         IN  IF \E i \in 1..Len(front) : front[i] = x THEN front
             ELSE Append(front, x)

RECURSIVE SumSeq(_)
SumSeq(s) == IF s = <<>> THEN 0 ELSE Head(s) + SumSeq(Tail(s))

Take(s, n) == SubSeq(s, 1, Min(n, Len(s)))

Range(s) == {s[i] : i \in 1..Len(s)}

\* Array.prototype.sort((a, b) => b.score - a.score): stable, descending
InsertDesc(x, sorted) ==
    LET k == Cardinality({i \in 1..Len(sorted) : sorted[i].score >= x.score})
    IN  SubSeq(sorted, 1, k) \o <<x>> \o SubSeq(sorted, k + 1, Len(sorted))

RECURSIVE SortDesc(_)
SortDesc(s) ==
    IF s = <<>> THEN <<>>
    ELSE InsertDesc(s[Len(s)], SortDesc(SubSeq(s, 1, Len(s) - 1)))

(***************************************************************************)
(* Text.  A text is a sequence of pieces; a piece stands for a run of      *)
(* characters delimited by white space: the word it reads as, its length   *)
(* in characters (delimiter included) and whether it is in Hebrew letters. *)
(* Words are written in lower case, so toLowerCase leaves them alone.      *)
(***************************************************************************)
\* a word in Latin letters / a word in Hebrew letters (run: the maximal run
\* of Hebrew letters in it, NONE when it has none)
Latin(w, n)  == [word |-> w, run |-> NONE, len |-> n]
Hebrew(w, n) == [word |-> w, run |-> w, len |-> n]

TextLen(t) == SumSeq([i \in 1..Len(t) |-> t[i].len])

\* detectThematicKeywords: for each French theme name, in the table's order,
\* that the text includes: its Hebrew and its transliterated name
themeMap ==
    <<[french |-> "joie", names |-> <<"simcha_he", "simcha">>],
      [french |-> "foi",  names |-> <<"emuna_he", "emuna">>]>>

detectThematicKeywords(t) ==
    Flatten([k \in 1..Len(themeMap) |->
        IF \E i \in 1..Len(t) : t[i].word = themeMap[k].french
        THEN themeMap[k].names ELSE <<>>])

\* words longer than 2 characters, then the Hebrew runs, then the thematic
\* keywords, without duplicates
extractQueryKeywords(t) ==
    LET words == SelectSeq(t, LAMBDA p : p.len > 2)
        runs  == SelectSeq(t, LAMBDA p : p.run # NONE)
    IN  Dedup([i \in 1..Len(words) |-> words[i].word]
              \o [i \in 1..Len(runs) |-> runs[i].run]
              \o detectThematicKeywords(t))

\* text.substring(0, n) + '...': the pieces that end within the first n
\* characters, the part of the piece that n cuts, and the marker, which
\* joins the last word (the run of Hebrew letters before it is unchanged)
RECURSIVE Cut(_, _)
Cut(t, n) ==
    IF t = <<>> \/ n <= 0 THEN <<>>
    ELSE IF Head(t).len <= n THEN <<Head(t)>> \o Cut(Tail(t), n - Head(t).len)
    ELSE <<[word |-> "cut", run |-> IF Head(t).run = NONE THEN NONE ELSE "cut",
            len |-> n]>>

WithMarker(t) ==
    IF t = <<>> THEN <<Latin("...", 3)>>
    ELSE [t EXCEPT ![Len(t)] =
            [word |-> @.word \o "...", run |-> @.run, len |-> @.len + 3]]

Truncated(t, n) == WithMarker(Cut(t, n))

(***************************************************************************)
(* Vectors                                                                 *)
(***************************************************************************)
RECURSIVE ISqrtFrom(_, _)
ISqrtFrom(n, r) == IF (r + 1) * (r + 1) > n THEN r ELSE ISqrtFrom(n, r + 1)
ISqrt(n) == ISqrtFrom(n, 0)

Dot(v, w) == SumSeq([i \in 1..Len(v) |-> v[i] * w[i]])

\* cosineSimilarity in hundredths (exact for the vectors used here, whose
\* norms are whole numbers)
cosineSimilarity(vec1, vec2) ==
    IF Len(vec1) # Len(vec2) THEN 0
    ELSE LET norm1 == ISqrt(Dot(vec1, vec1))
             norm2 == ISqrt(Dot(vec2, vec2))
         IN  IF norm1 = 0 \/ norm2 = 0 THEN 0
             ELSE (100 * Dot(vec1, vec2)) \div (norm1 * norm2)

RECURSIVE MaxOf(_)
MaxOf(s) == IF Len(s) = 1 THEN s[1]
            ELSE LET m == MaxOf(Tail(s)) IN IF s[1] > m THEN s[1] ELSE m

(***************************************************************************)
(* The corpus the router serves: two persisted index sets (two builds of   *)
(* the same two books) and the chunk files they refer to.                  *)
(* A search-index reference "bookId:count" is kept as the pair that        *)
(* split(':') and parseInt recover from it.                                *)
(***************************************************************************)
BookIds == {"lm", "sm"}

Ref(b, n)  == [bookId |-> b, count |-> n]
Wref(b, w) == [bookId |-> b, weight |-> w]

Section(id, kw, th, ids, emb) ==
    [id |-> id, keywords |-> kw, themes |-> th, chunkIds |-> ids, embedding |-> emb]

\* MasterIndex (weights in hundredths)
MasterOf(v) ==
    [created |-> v,
     books |-> <<[id |-> "lm", title |-> "Likutey Moharan",
                  keywordEmbeddings |-> Some(<<<<1, 0>>, <<0, 0>>>>)],
                 [id |-> "sm", title |-> "Sippurei Maasiyot",
                  keywordEmbeddings |-> Some(<<<<0, 1>>>>)]>>,
     searchIndex |->
        [k \in {"simcha_he"} |->
            IF v = 1 THEN <<Ref("lm", 90), Ref("sm", 20)>>
            ELSE <<Ref("sm", 20), Ref("lm", 80)>>],
     thematicMap |->
        [k \in {"simcha_he"} |-> <<Wref("lm", 50), Wref("sm", 30)>>]]

\* BookIndex.structure.sections of each book
BookOf(v, b) ==
    [bookId |-> b,
     created |-> v,
     sections |->
        IF b = "lm"
        THEN <<Section("torah_1", {"simcha_he"}, {"simcha_he"},
                       IF v = 1 THEN <<"lm_0", "lm_1">> ELSE <<"lm_0">>,
                       Some(<<1, 0>>)),
               Section("torah_2", {}, {"simcha_he"},
                       IF v = 1 THEN <<"lm_2", "lm_3">> ELSE <<"lm_1", "lm_2">>,
                       Absent)>>
        ELSE <<Section("story_1", {"simcha_he"}, {"simcha_he"}, <<"sm_0">>,
                       Some(<<0, 1>>))>>]

\* ChunkIndex[] of each book: one entry per chunk
ChunkIndexOf(v, b) ==
    LET ids == Flatten([i \in 1..Len(BookOf(v, b).sections) |->
                          BookOf(v, b).sections[i].chunkIds])
    IN  [i \in 1..Len(ids) |-> [chunkId |-> ids[i], bookId |-> b, created |-> v]]

Versions == {1, 2}

Chunk(id, b, text, tokens, th) ==
    [id |-> id, bookId |-> b, hebrew |-> text, reference |-> id,
     tokenCount |-> tokens, themes |-> th]

\* data/chunks/<bookId>/<chunkId>.json; lm_3 is listed by an index and absent
ChunkFileOf(id) ==
        CASE id = "lm_0" ->
               Chunk(id, "lm", <<Hebrew("simcha_he", 5), Hebrew("filler", 239995)>>,
                     60000, {"simcha_he"})
          [] id = "lm_1" ->
               Chunk(id, "lm", <<Hebrew("filler", 2000000)>>, 500000, {})
          [] id = "lm_2" ->
               Chunk(id, "lm", <<Hebrew("filler", 1799995), Hebrew("emuna_he", 5)>>,
                     450000, {"emuna_he"})
          [] OTHER ->
               Chunk(id, "sm", <<Hebrew("filler", 120000)>>, 30000, {"simcha_he"})

ChunkFiles ==
    [f \in {<<"lm", "lm_0">>, <<"lm", "lm_1">>, <<"lm", "lm_2">>, <<"sm", "sm_0">>}
        |-> ChunkFileOf(f[2])]

\* the queries put to the router, as texts
Queries == {"joie", "le", "constructor"}

QueryText(q) ==
    CASE q = "joie" -> <<Latin("joie", 4)>>
      [] q = "le" -> <<Latin("le", 2)>>
      [] OTHER -> <<Latin("constructor", 11)>>

\* what the embedding provider answers for a query
EmbeddingOf(q) == IF q = "le" THEN <<0, 1>> ELSE <<1, 0>>

(***************************************************************************)
(* HierarchicalRouter: the three levels as functions of what they read     *)
(***************************************************************************)
MAX_CONTEXT_TOKENS == 900000
PartialChunkFloor == 10000
TopBooks == 3
TopSectionsPerBook == 5
TopCandidates == 10

\* searchMasterIndex: the TypeError of `for (const ref of bookRefs)` when
\* the keyword names an inherited member
searchMasterIndexThrows(master, queryKeywords) ==
    \/ master = Absent
    \/ \E i \in 1..Len(queryKeywords) :
          \/ Inherits(master[1].searchIndex, queryKeywords[i])
          \/ Inherits(master[1].thematicMap, queryKeywords[i])

RefsOf(index, queryKeywords) ==
    Flatten([i \in 1..Len(queryKeywords) |->
        IF queryKeywords[i] \in DOMAIN index THEN index[queryKeywords[i]]
        ELSE <<>>])

\* books with keyword embeddings, when the query has an embedding and the
\* first book of the master index carries embeddings
SemanticBooks(master, queryEmbedding) ==
    IF /\ queryEmbedding # Absent
       /\ Len(master.books) > 0
       /\ master.books[1].keywordEmbeddings # Absent
    THEN SelectSeq(master.books,
            LAMBDA b : /\ b.keywordEmbeddings # Absent
                       /\ Len(b.keywordEmbeddings[1]) > 0)
    ELSE <<>>

searchMasterIndex(master, queryEmbedding, queryKeywords) ==
    LET lexRefs  == RefsOf(master.searchIndex, queryKeywords)
        themRefs == RefsOf(master.thematicMap, queryKeywords)
        semBooks == SemanticBooks(master, queryEmbedding)
        lexical(b)  == SumSeq([i \in 1..Len(lexRefs) |->
                          IF lexRefs[i].bookId = b THEN lexRefs[i].count ELSE 0])
        thematic(b) == SumSeq([i \in 1..Len(themRefs) |->
                          IF themRefs[i].bookId = b THEN themRefs[i].weight ELSE 0])
        semantic(b) ==
            LET hit == SelectSeq(semBooks, LAMBDA x : x.id = b)
            IN  IF hit = <<>> THEN 0
                ELSE LET e == hit[Len(hit)].keywordEmbeddings[1]
                     IN  MaxOf([i \in 1..Len(e) |->
                                   cosineSimilarity(queryEmbedding[1], e[i])])
        allBookIds == Dedup([i \in 1..Len(lexRefs) |-> lexRefs[i].bookId]
                            \o [i \in 1..Len(themRefs) |-> themRefs[i].bookId]
                            \o [i \in 1..Len(semBooks) |-> semBooks[i].id])
        total(b) == 3 * lexical(b) + 3 * thematic(b) + 4 * semantic(b)
        known(b) == \E i \in 1..Len(master.books) : master.books[i].id = b
        kept == SelectSeq(allBookIds, LAMBDA b : total(b) > 100 /\ known(b))
        bookScores == [i \in 1..Len(kept) |->
            [bookId |-> kept[i],
             title |-> (CHOOSE x \in Range(master.books) : x.id = kept[i]).title,
             score |-> total(kept[i])]]
    IN  Take(SortDesc(bookScores), TopBooks)

\* a Level 2 that returns the sections of the books one book after the
\* other, neither sorted nor cut
searchBookIndexesUnsorted(books, queryEmbedding, queryKeywords, bookIdx) ==
    Flatten([i \in 1..Len(books) |->
        IF books[i].bookId \notin DOMAIN bookIdx THEN <<>>
        ELSE [k \in 1..Len(bookIdx[books[i].bookId].sections) |->
                [bookId |-> books[i].bookId,
                 sectionId |-> bookIdx[books[i].bookId].sections[k].id,
                 score |-> 100001 + k,
                 chunkIds |-> bookIdx[books[i].bookId].sections[k].chunkIds]]])

\* searchBookIndexes: bookIndexes is the router's map, a function on the
\* ids of the books loaded so far
searchBookIndexes(books, queryEmbedding, queryKeywords, bookIdx) ==
    LET overlap(set) ==
            Cardinality({i \in 1..Len(queryKeywords) : queryKeywords[i] \in set})
        score(book, sec) ==
            (overlap(sec.keywords) * 200 + overlap(sec.themes) * 300
             + (IF queryEmbedding # Absent /\ sec.embedding # Absent
                THEN cosineSimilarity(queryEmbedding[1], sec.embedding[1]) * 5
                ELSE 0))
            * book.score
        ofBook(book) ==
            IF book.bookId \notin DOMAIN bookIdx THEN <<>>
            ELSE LET secs == bookIdx[book.bookId].sections
                     scored == [i \in 1..Len(secs) |->
                        [bookId |-> book.bookId, sectionId |-> secs[i].id,
                         score |-> score(book, secs[i]),
                         chunkIds |-> secs[i].chunkIds]]
                 IN  Take(SortDesc(SelectSeq(scored, LAMBDA c : c.score > 100000)),
                          TopSectionsPerBook)
    IN  Take(SortDesc(Flatten([i \in 1..Len(books) |-> ofBook(books[i])])),
             TopCandidates)

\* a truncation that keeps the token count of the whole chunk
truncateChunkKeepingCount(chunk, maxTokens) ==
    [chunk EXCEPT
        !.hebrew = Truncated(@, MulDiv(TextLen(@), maxTokens, chunk.tokenCount))]

\* truncateChunk: a copy of the chunk cut to maxTokens
truncateChunk(chunk, maxTokens) ==
    [chunk EXCEPT
        !.hebrew = Truncated(@, MulDiv(TextLen(@), maxTokens, chunk.tokenCount)),
        !.tokenCount = maxTokens]

\* a loader that gives up the whole section when one of its chunks cannot
\* be read
loadChunksForSectionOrNone(bookId, chunkIds, cached, files) ==
    IF \A i \in 1..Len(chunkIds) :
          chunkIds[i] \in DOMAIN cached \/ <<bookId, chunkIds[i]>> \in DOMAIN files
    THEN [i \in 1..Len(chunkIds) |->
            IF chunkIds[i] \in DOMAIN cached THEN cached[chunkIds[i]]
            ELSE files[<<bookId, chunkIds[i]>>]]
    ELSE <<>>

\* loadChunksForSection: from the in-memory chunk cache, else from the
\* chunk file; a chunk that cannot be read is skipped
loadChunksForSection(bookId, chunkIds, cached, files) ==
    LET found == SelectSeq(chunkIds,
                    LAMBDA id : id \in DOMAIN cached \/ <<bookId, id>> \in DOMAIN files)
    IN  [i \in 1..Len(found) |->
            IF found[i] \in DOMAIN cached THEN cached[found[i]]
            ELSE files[<<bookId, found[i]>>]]

\* the inner loop of retrieveChunks over one candidate's chunks;
\* st = [chunks, total, stop, cached]
RECURSIVE AddChunks(_, _, _)
AddChunks(cs, st, maxTokens) ==
    IF cs = <<>> THEN st
    ELSE LET chunkTokens == Head(cs).tokenCount
         IN  IF JsGt(st.total + chunkTokens, maxTokens)
             THEN IF maxTokens[1] - st.total > PartialChunkFloor
                  THEN [st EXCEPT
                          !.chunks = Append(@, truncateChunk(Head(cs),
                                                   maxTokens[1] - st.total)),
                          !.total = maxTokens[1],
                          !.stop = TRUE]
                  ELSE [st EXCEPT !.stop = TRUE]
             ELSE AddChunks(Tail(cs),
                            [st EXCEPT !.chunks = Append(@, Head(cs)),
                                       !.total = @ + chunkTokens],
                            maxTokens)

\* the chunk cache after loadChunksForSection read these chunks
Remember(cached, loaded) ==
    [id \in DOMAIN cached \cup {loaded[i].id : i \in 1..Len(loaded)} |->
        IF id \in DOMAIN cached THEN cached[id]
        ELSE (CHOOSE c \in Range(loaded) : c.id = id)]

RECURSIVE retrieveFrom(_, _, _, _)
retrieveFrom(candidates, st, maxTokens, files) ==
    IF candidates = <<>> THEN st
    ELSE LET loaded == loadChunksForSection(Head(candidates).bookId,
                                            Head(candidates).chunkIds,
                                            st.cached, files)
             st1 == AddChunks(loaded,
                              [st EXCEPT !.cached = Remember(@, loaded)],
                              maxTokens)
         IN  IF st1.stop THEN st1
             ELSE IF maxTokens # Absent /\ 10 * st1.total > 8 * maxTokens[1]
                  THEN st1
                  ELSE retrieveFrom(Tail(candidates), st1, maxTokens, files)

\* a retrieval that takes the candidates from the last to the first
retrieveChunksBackwards(candidates, maxTokens, cached, files) ==
    retrieveFrom([i \in 1..Len(candidates) |-> candidates[Len(candidates) + 1 - i]],
                 [chunks |-> <<>>, total |-> 0, stop |-> FALSE, cached |-> cached],
                 maxTokens, files)

retrieveChunks(candidates, maxTokens, cached, files) ==
    retrieveFrom(candidates,
                 [chunks |-> <<>>, total |-> 0, stop |-> FALSE, cached |-> cached],
                 maxTokens, files)

(***************************************************************************)
(* Route Results                                                           *)
(***************************************************************************)
\* a number n/d, NaN, or (after JSON) null
Number(n, d) == [kind |-> "number", num |-> n, den |-> d]
NotANumber   == [kind |-> "NaN", num |-> 0, den |-> 1]
JsonNull     == [kind |-> "null", num |-> 0, den |-> 1]

\* calculateConfidence, over the common denominator 300 * |queryKeywords|;
\* 0/0 is NaN, and Math.min(NaN, 1) is NaN
calculateConfidence(chunks, queryKeywords) ==
    IF Len(chunks) = 0 THEN Number(0, 1)
    ELSE LET k == Len(queryKeywords)
             allChunkKeywords ==
                 UNION {Range(extractQueryKeywords(chunks[i].hebrew)) :
                            i \in 1..Len(chunks)}
             allThemes == UNION {chunks[i].themes : i \in 1..Len(chunks)}
             covered == Cardinality({i \in 1..k : queryKeywords[i] \in allChunkKeywords})
             aligned == Cardinality({i \in 1..k : queryKeywords[i] \in allThemes})
             num == 9 * Min(Len(chunks), 10) * k + 120 * covered + 90 * aligned
         IN  IF k = 0 THEN NotANumber
             ELSE Number(Min(num, 300 * k), 300 * k)

createEmptyResult(query) ==
    [query |-> query, books |-> <<>>, sections |-> <<>>, chunks |-> <<>>,
     totalTokens |-> 0, confidence |-> Number(0, 1), fromCache |-> FALSE,
     strategy |-> "NoResults"]

TotalTokens(chunks) == SumSeq([i \in 1..Len(chunks) |-> chunks[i].tokenCount])

\* a serialization that loses the chunk list
JsonRoundTripWithoutChunks(result) == [result EXCEPT !.chunks = <<>>]

\* JSON.parse(JSON.stringify(result)): NaN is written as null
JsonRoundTrip(result) ==
    [result EXCEPT !.confidence = IF @.kind = "NaN" THEN JsonNull ELSE @]

\* the Redis key of a query: 'route:' + md5(query)
hashQuery(query) == <<"md5", query>>
CacheKey(query) == <<"route", hashQuery(query)>>

\* the options a caller passes: an object with some of the fields maxTokens
\* and useCache; {maxTokens: undefined} is what POST /query passes for a
\* body without maxTokens
NoOptions == [f \in {} |-> Absent]
OptionSets ==
    {NoOptions,
     [maxTokens |-> Absent],
     [maxTokens |-> Some(65000)],
     [maxTokens |-> Some(100000)],
     [useCache |-> FALSE]}

\* the calls made: every query with the default options, and the query that
\* matches with every option set
Inputs ==
    {<<q, NoOptions>> : q \in Queries} \cup {<<"joie", o>> : o \in OptionSets}

\* { maxTokens: MAX_CONTEXT_TOKENS, useCache: true, ...options }: an own
\* property of options wins, also when its value is undefined
MergeOptions(options) ==
    [maxTokens |-> IF "maxTokens" \in DOMAIN options THEN options.maxTokens
                   ELSE Some(MAX_CONTEXT_TOKENS),
     useCache  |-> IF "useCache" \in DOMAIN options THEN options.useCache
                   ELSE TRUE]

(***************************************************************************)
(* SemanticChunker: a section is its position in the book, the length of  *)
(* its Hebrew text and whether the text opens with the start marker of    *)
(* the book's type; a text is named by the section it belongs to          *)
(***************************************************************************)
DEFAULT_OPTIONS ==
    [maxTokens |-> 75000, minTokens |-> 50000, overlapPercent |-> 10,
     preserveSemanticUnits |-> TRUE]

NoChunkingOptions == [f \in {} |-> 0]

\* { ...this.DEFAULT_OPTIONS, ...options }
MergeChunkingOptions(options) ==
    [f \in DOMAIN DEFAULT_OPTIONS |->
        IF f \in DOMAIN options THEN options[f] ELSE DEFAULT_OPTIONS[f]]

sectionsPerUnit == 10
SplitTargetPercent == 80
IdPrefixChars == 100

\* Math.ceil(text.length / 4)
estimateTokens(len) == (len + 3) \div 4

isTorahStart(section)  == section.starts
isStoryStart(section)  == section.starts
isPrayerStart(section) == section.starts

StartsUnit(type, section) ==
    CASE type = "torah"  -> isTorahStart(section)
      [] type = "story"  -> isStoryStart(section)
      [] type = "prayer" -> isPrayerStart(section)

UnitId(type, n, part) == [type |-> type, n |-> n, part |-> part]

\* the loop shared by identifyTorahUnits, identifyStoryUnits and
\* identifyPrayerUnits: a section that is not a start joins the current
\* unit, and is skipped while there is no current unit
RECURSIVE identifyStartedUnits(_, _, _, _)
identifyStartedUnits(sections, type, units, current) ==
    IF sections = <<>> THEN units \o current
    ELSE LET section == Head(sections)
             tokens  == estimateTokens(section.len)
         IN  IF StartsUnit(type, section)
             THEN LET pushed == units \o current
                  IN  identifyStartedUnits(Tail(sections), type, pushed,
                         Some([id |-> UnitId(type, Len(pushed) + 1, 0),
                               type |-> type,
                               sections |-> <<section>>,
                               tokenCount |-> tokens]))
             ELSE IF current # Absent
             THEN identifyStartedUnits(Tail(sections), type, units,
                     Some([current[1] EXCEPT !.sections = Append(@, section),
                                             !.tokenCount = @ + tokens]))
             ELSE identifyStartedUnits(Tail(sections), type, units, current)

identifyTorahUnits(b)  == identifyStartedUnits(b.sections, "torah", <<>>, Absent)
identifyStoryUnits(b)  == identifyStartedUnits(b.sections, "story", <<>>, Absent)
identifyPrayerUnits(b) == identifyStartedUnits(b.sections, "prayer", <<>>, Absent)

SectionTokens(sections) ==
    SumSeq([i \in 1..Len(sections) |-> estimateTokens(sections[i].len)])

RECURSIVE DefaultUnitsFrom(_, _)
DefaultUnitsFrom(sections, units) ==
    IF sections = <<>> THEN units
    ELSE LET slice == Take(sections, sectionsPerUnit)
         IN  DefaultUnitsFrom(
                SubSeq(sections, Len(slice) + 1, Len(sections)),
                Append(units, [id |-> UnitId("unit", Len(units) + 1, 0),
                               type |-> "section",
                               sections |-> slice,
                               tokenCount |-> SectionTokens(slice)]))

identifyDefaultUnits(b) == DefaultUnitsFrom(b.sections, <<>>)

identifySemanticUnits(b) ==
    IF b.id = "likutey_moharan" THEN identifyTorahUnits(b)
    ELSE IF b.id = "sippurei_maasiyot" THEN identifyStoryUnits(b)
    ELSE IF b.id = "tefilot" THEN identifyPrayerUnits(b)
    ELSE identifyDefaultUnits(b)

\* splitLargeUnit: sections are packed up to 80% of maxTokens; a section is
\* never divided
RECURSIVE SplitFrom(_, _, _, _)
SplitFrom(sections, st, unit, targetSize) ==
    LET part == [id |-> UnitId(unit.id.type, unit.id.n, Len(st.chunks) + 1),
                 type |-> unit.type,
                 sections |-> st.currentSections,
                 tokenCount |-> st.currentTokens]
    IN  IF sections = <<>>
        THEN IF st.currentSections # <<>> THEN Append(st.chunks, part)
             ELSE st.chunks
        ELSE LET section == Head(sections)
                 sectionTokens == estimateTokens(section.len)
             IN  IF /\ st.currentTokens + sectionTokens > targetSize
                    /\ st.currentSections # <<>>
                 THEN SplitFrom(Tail(sections),
                         [chunks |-> Append(st.chunks, part),
                          currentSections |-> <<section>>,
                          currentTokens |-> sectionTokens],
                         unit, targetSize)
                 ELSE SplitFrom(Tail(sections),
                         [chunks |-> st.chunks,
                          currentSections |-> Append(st.currentSections, section),
                          currentTokens |-> st.currentTokens + sectionTokens],
                         unit, targetSize)

splitLargeUnit(unit, options) ==
    SplitFrom(unit.sections,
              [chunks |-> <<>>, currentSections |-> <<>>, currentTokens |-> 0],
              unit, (options.maxTokens * SplitTargetPercent) \div 100)

UnitTokens(units) == SumSeq([i \in 1..Len(units) |-> units[i].tokenCount])

Pushed(st) ==
    IF st.currentGroup # <<>> THEN Append(st.groups, st.currentGroup)
    ELSE st.groups

RECURSIVE GroupFrom(_, _, _)
GroupFrom(units, st, options) ==
    IF units = <<>> THEN st
    ELSE LET unit == Head(units)
             splitUnits == splitLargeUnit(unit, options)
         IN  IF unit.tokenCount > options.maxTokens
             THEN GroupFrom(Tail(units),
                     [groups |-> Pushed(st) \o
                                 [i \in 1..Len(splitUnits) |-> <<splitUnits[i]>>],
                      currentGroup |-> <<>>,
                      currentTokens |-> IF st.currentGroup # <<>> THEN 0
                                        ELSE st.currentTokens],
                     options)
             ELSE IF st.currentTokens + unit.tokenCount > options.maxTokens
             THEN GroupFrom(Tail(units),
                     [groups |-> Pushed(st),
                      currentGroup |-> <<unit>>,
                      currentTokens |-> unit.tokenCount],
                     options)
             ELSE GroupFrom(Tail(units),
                     [groups |-> st.groups,
                      currentGroup |-> Append(st.currentGroup, unit),
                      currentTokens |-> st.currentTokens + unit.tokenCount],
                     options)

groupUnitsIntoChunks(units, options) ==
    LET st == GroupFrom(units,
                  [groups |-> <<>>, currentGroup |-> <<>>, currentTokens |-> 0],
                  options)
        groups == st.groups
        lastGroup == groups[Len(groups)]
    IN  IF st.currentGroup = <<>> THEN groups
        ELSE IF /\ st.currentTokens < options.minTokens
                /\ groups # <<>>
                /\ UnitTokens(lastGroup) + st.currentTokens <= options.maxTokens
        THEN [groups EXCEPT ![Len(groups)] = lastGroup \o st.currentGroup]
        ELSE Append(groups, st.currentGroup)

SectionsOf(units) == Flatten([i \in 1..Len(units) |-> units[i].sections])

\* a piece of context: chars characters of a section's text from offset
\* from, with the literal put before and after it
Piece(lead, section, from, chars, trail) ==
    [lead |-> lead, section |-> section.index, from |-> from, chars |-> chars,
     trail |-> trail]

PartialChars(section, tokens, maxTokens) ==
    (section.len * (maxTokens - tokens)) \div estimateTokens(section.len)

RECURSIVE OverlapStart(_, _, _)
OverlapStart(sections, tokens, maxTokens) ==
    IF sections = <<>> THEN <<>>
    ELSE LET section == Head(sections)
             textTokens == estimateTokens(section.len)
         IN  IF tokens + textTokens > maxTokens
             THEN <<Piece("", section, 0,
                          PartialChars(section, tokens, maxTokens), "...")>>
             ELSE <<Piece("", section, 0, section.len, "\n")>> \o
                  OverlapStart(Tail(sections), tokens + textTokens, maxTokens)

RECURSIVE OverlapEnd(_, _, _)
OverlapEnd(sections, tokens, maxTokens) ==
    IF sections = <<>> THEN <<>>
    ELSE LET section == sections[Len(sections)]
             textTokens == estimateTokens(section.len)
             charCount == PartialChars(section, tokens, maxTokens)
         IN  IF tokens + textTokens > maxTokens
             THEN <<Piece("...", section, section.len - charCount, charCount, "")>>
             ELSE OverlapEnd(SubSeq(sections, 1, Len(sections) - 1),
                             tokens + textTokens, maxTokens) \o
                  <<Piece("", section, 0, section.len, "\n")>>

getOverlapContext(units, maxTokens, position) ==
    IF position = "start" THEN OverlapStart(SectionsOf(units), 0, maxTokens)
    ELSE OverlapEnd(SectionsOf(units), 0, maxTokens)

\* a section's text: sections of one kind carry the same text
TextOf(section) == [len |-> section.len, starts |-> section.starts]

\* content.substring(0, 100) of the sections' texts joined by "\n\n"
RECURSIVE Leading(_, _)
Leading(sections, n) ==
    IF n <= 0 \/ sections = <<>> THEN <<>>
    ELSE <<[text |-> TextOf(Head(sections)),
            chars |-> Min(Head(sections).len, n)]>> \o
         Leading(Tail(sections), n - Head(sections).len - 2)

\* an id that leaves the ordinal out
generateChunkIdWithoutIndex(bookId, index, sections) ==
    [bookId |-> bookId, index |-> 0, hash |-> Leading(sections, IdPrefixChars)]

\* `${bookId}_chunk_${index}_${hash}`: the md5 prefix is taken to tell
\* different leading texts apart
generateChunkId(bookId, index, sections) ==
    [bookId |-> bookId, index |-> index, hash |-> Leading(sections, IdPrefixChars)]

generateReference(units) ==
    LET firstSection == units[1].sections[1]
        lastUnit == units[Len(units)]
        lastSection == lastUnit.sections[Len(lastUnit.sections)]
    IN  IF firstSection.index = lastSection.index THEN <<firstSection.index>>
        ELSE <<firstSection.index, lastSection.index>>

\* text.matchAll(pattern) with the second, non-global pattern: a TypeError
\* since ES2020, one match at most before
extractCitationsThrows(js) == js = "es2020"

\* createChunk(bookId, units, index, prevUnits, nextUnits, options); index
\* counts from 0, prevUnits and nextUnits are Absent at the ends
createChunk(bookId, units, index, prevUnits, nextUnits, options) ==
    LET allSections == SectionsOf(units)
        overlapTokens == (options.maxTokens * options.overlapPercent) \div 100
    IN  [id |-> generateChunkId(bookId, index, allSections),
         bookId |-> bookId,
         sectionId |-> units[1].id,
         content |-> [i \in 1..Len(allSections) |-> allSections[i].index],
         reference |-> generateReference(units),
         startIndex |-> allSections[1].index,
         endIndex |-> allSections[Len(allSections)].index,
         tokenCount |-> UnitTokens(units),
         before |-> IF prevUnits = Absent THEN <<>>
                    ELSE getOverlapContext(prevUnits[1], overlapTokens, "end"),
         after |-> IF nextUnits = Absent THEN <<>>
                   ELSE getOverlapContext(nextUnits[1], overlapTokens, "start")]

(***************************************************************************)
(* The books chunkBook() is given                                          *)
(***************************************************************************)
MaxSections == 3

BookTypes == {"likutey_moharan", "sippurei_maasiyot", "tefilot", "sichot_haran"}

\* text lengths of 10, 50 and 120 estimated tokens
SectionKinds == {[len |-> n, starts |-> m] : n \in {40, 200, 480}, m \in BOOLEAN}

SectionSeqs ==
    UNION {[1..n -> SectionKinds] : n \in 0..MaxSections}

Numbered(kinds) ==
    [i \in 1..Len(kinds) |->
        [index |-> i, len |-> kinds[i].len, starts |-> kinds[i].starts]]

ChunkingOptionSets == {NoChunkingOptions, [maxTokens |-> 100, minTokens |-> 60]}

Books ==
    {[id |-> t, sections |-> Numbered(ss), options |-> o] :
        t \in BookTypes, ss \in SectionSeqs, o \in ChunkingOptionSets}

\* the scenario book: twelve sections of about 20,000 estimated tokens each,
\* the first one opening with the book's heading, chunked with the default
\* options or with the same values passed explicitly
ScenarioSections(len) ==
    [i \in 1..12 |-> [len |-> len, starts |-> i = 1]]

ScenarioBooks ==
    {[id |-> t, sections |-> Numbered(ScenarioSections(n)), options |-> o] :
        t \in BookTypes, n \in {76000, 80000, 84000},
        o \in {NoChunkingOptions, [maxTokens |-> 75000, minTokens |-> 50000]}}

(***************************************************************************)
(* State                                                                   *)
(***************************************************************************)
VARIABLES
    masterIndex,    \* HierarchicalRouter.masterIndex: Absent (null) or Some(index)
    bookIndexes,    \* HierarchicalRouter.bookIndexes: bookId -> BookIndex
    chunkIndexes,   \* HierarchicalRouter.chunkIndexes: bookId -> ChunkIndex[]
    chunksCache,    \* HierarchicalRouter.chunksCache: chunkId -> Chunk
    redis,          \* this.redis is not null
    openai,         \* this.openai is not null
    cache,          \* the Redis store: key -> serialized Route Result
    call,           \* the route() calls in flight, one per caller
    load,           \* the loadIndexes() call in flight
    loadsCompleted, \* loadIndexes() calls that returned normally
    disk,           \* data/indexes: master/index.json, books/*.json, chunks/*.json
    chunkFiles,     \* data/chunks/<bookId>/<chunkId>.json
    build,          \* the buildAllIndexes() call in flight
    nCalls,         \* route() calls made so far
    nBuilds,        \* buildAllIndexes() calls made so far
    prev,           \* the last route() call that returned (history)
    book,           \* the book and options handed to chunkBook()
    chunking,       \* the chunkBook() call
    engine          \* the JavaScript engine's edition

vars == <<masterIndex, bookIndexes, chunkIndexes, chunksCache, redis, openai,
          cache, call, load, loadsCompleted, disk, chunkFiles, build, nCalls,
          nBuilds, prev, book, chunking, engine>>

indexVars  == <<masterIndex, bookIndexes, chunkIndexes>>
routerVars == <<chunksCache, cache, call, nCalls, prev>>
buildVars  == <<disk, build, nBuilds>>
chunkerVars == <<book, chunking, engine>>

MaxCalls  == 2
MaxLoads  == 2
MaxBuilds == 2

Callers == {"c1", "c2"}

EmptyMap == [k \in {} |-> 0]

\* created: new Date() in every index a build constructs
Stamped(index, t) ==
    [f \in DOMAIN index \cup {"created"} |->
        IF f = "created" THEN t ELSE index[f]]

\* the complete index set a build from chunk input v at time t persists
IndexSet(v, t) ==
    [master |-> Some(Stamped(MasterOf(v), t)),
     books  |-> [b \in BookIds |-> Stamped(BookOf(v, b), t)],
     chunks |-> [b \in BookIds |->
                   [i \in 1..Len(ChunkIndexOf(v, b)) |->
                       Stamped(ChunkIndexOf(v, b)[i], t)]]]

\* the index set on disk when the server starts
DiskOf(v) == IndexSet(v, 0)

IdleCall ==
    [pc |-> "idle", query |-> NONE, options |-> NoOptions,
     opts |-> MergeOptions(NoOptions),
     queryEmbedding |-> Absent, queryKeywords |-> <<>>, books |-> <<>>,
     sections |-> <<>>, result |-> createEmptyResult(NONE),
     \* history: what the call saw and when it was made
     loadedAtCall |-> FALSE, loadingAtCall |-> FALSE, loadsAtCall |-> 0,
     sawMaster |-> Absent,
     sawBooks |-> EmptyMap, alone |-> FALSE, pred |-> Absent, cacheOk |-> TRUE,
     wrote |-> Absent]

IdleLoad == [pc |-> "idle", files |-> <<>>, afterFailedBuild |-> FALSE]

\* no books and no chunks
NoIndexInput == [books |-> <<>>, chunksMap |-> <<>>, mem |-> <<>>]

\* given: the arguments of buildAllIndexes; memory: the input chunks' arrays
\* as they are now; indexes: what the build in flight has constructed;
\* returned: what the calls so far returned
IdleBuild ==
    [pc |-> "idle", input |-> 0, files |-> <<>>, created |-> 0,
     given |-> NoIndexInput, memory |-> <<>>, indexes |-> Absent,
     returned |-> <<>>]

NoBook == [id |-> NONE, sections |-> <<>>, options |-> NoChunkingOptions]

IdleChunking ==
    [pc |-> "idle", opts |-> DEFAULT_OPTIONS, semanticUnits |-> <<>>,
     groupedUnits |-> <<>>, chunks |-> <<>>, previous |-> Absent]

\* no chunkBook() call is made
ChunkerIdle ==
    /\ book = NoBook
    /\ chunking = IdleChunking
    /\ engine = "es2020"

Init ==
    /\ masterIndex = Absent
    /\ bookIndexes = EmptyMap
    /\ chunkIndexes = EmptyMap
    /\ chunksCache = EmptyMap
    /\ redis \in BOOLEAN
    /\ openai \in BOOLEAN
    /\ cache = EmptyMap
    /\ call = [c \in Callers |-> IdleCall]
    /\ load = IdleLoad
    /\ loadsCompleted = 0
    /\ disk = DiskOf(1)
    /\ chunkFiles = ChunkFiles
    /\ build = IdleBuild
    /\ nCalls = 0
    /\ nBuilds = 0
    /\ prev = Absent
    /\ ChunkerIdle

(***************************************************************************)
(* loadIndexes(): one step per await                                       *)
(***************************************************************************)
\* fs.readdir: the files <bookId>.json of a directory, in name order
FilesIn(dir) == SelectSeq(<<"lm", "sm">>, LAMBDA b : b \in DOMAIN dir)

LoadStart ==
    /\ load.pc \in {"idle", "done", "failed"}
    /\ loadsCompleted < MaxLoads
    /\ load' = [pc |-> "master", files |-> <<>>,
                afterFailedBuild |-> build.pc = "failed"]
    /\ UNCHANGED <<indexVars, routerVars, buildVars, redis, openai, loadsCompleted,
                   chunkFiles, chunkerVars>>

\* this.masterIndex = JSON.parse(await fs.readFile(master/index.json))
LoadMaster ==
    /\ load.pc = "master"
    /\ IF disk.master = Absent
       THEN /\ load' = [load EXCEPT !.pc = "failed"]
            /\ UNCHANGED masterIndex
       ELSE /\ masterIndex' = disk.master
            /\ load' = [load EXCEPT !.pc = "readdirBooks"]
    /\ UNCHANGED <<bookIndexes, chunkIndexes, routerVars, buildVars, redis, openai,
                   loadsCompleted, chunkFiles, chunkerVars>>

\* const bookFiles = await fs.readdir(books)
LoadReaddirBooks ==
    /\ load.pc = "readdirBooks"
    /\ load' = [load EXCEPT !.pc = "books", !.files = FilesIn(disk.books)]
    /\ UNCHANGED <<indexVars, routerVars, buildVars, redis, openai, loadsCompleted,
                   chunkFiles, chunkerVars>>

\* one turn of the loop over bookFiles
LoadBook ==
    /\ load.pc = "books"
    /\ IF load.files = <<>>
       THEN /\ load' = [load EXCEPT !.pc = "readdirChunks"]
            /\ UNCHANGED bookIndexes
       ELSE LET b == Head(load.files)
            IN  IF b \notin DOMAIN disk.books
                THEN /\ load' = [load EXCEPT !.pc = "failed"]
                     /\ UNCHANGED bookIndexes
                ELSE /\ bookIndexes' =
                          [x \in DOMAIN bookIndexes \cup {disk.books[b].bookId} |->
                              IF x = disk.books[b].bookId THEN disk.books[b]
                              ELSE bookIndexes[x]]
                     /\ load' = [load EXCEPT !.files = Tail(@)]
    /\ UNCHANGED <<masterIndex, chunkIndexes, routerVars, buildVars, redis, openai,
                   loadsCompleted, chunkFiles, chunkerVars>>

\* const chunkFiles = await fs.readdir(chunks)
LoadReaddirChunks ==
    /\ load.pc = "readdirChunks"
    /\ load' = [load EXCEPT !.pc = "chunks", !.files = FilesIn(disk.chunks)]
    /\ UNCHANGED <<indexVars, routerVars, buildVars, redis, openai, loadsCompleted,
                   chunkFiles, chunkerVars>>

\* one turn of the loop over chunkFiles; after the last one the call returns
LoadChunkIndex ==
    /\ load.pc = "chunks"
    /\ IF load.files = <<>>
       THEN /\ load' = [load EXCEPT !.pc = "done"]
            /\ loadsCompleted' = loadsCompleted + 1
            /\ UNCHANGED chunkIndexes
       ELSE LET b == Head(load.files)
            IN  /\ UNCHANGED loadsCompleted
                /\ IF b \notin DOMAIN disk.chunks
                   THEN /\ load' = [load EXCEPT !.pc = "failed"]
                        /\ UNCHANGED chunkIndexes
                   ELSE /\ chunkIndexes' =
                             [x \in DOMAIN chunkIndexes \cup {b} |->
                                 IF x = b THEN disk.chunks[b] ELSE chunkIndexes[x]]
                        /\ load' = [load EXCEPT !.files = Tail(@)]
    /\ UNCHANGED <<masterIndex, bookIndexes, routerVars, buildVars, redis, openai,
                   chunkFiles, chunkerVars>>

\* a read fails (I/O error, unparsable file): the catch block rethrows
LoadFail ==
    /\ load.pc \in {"master", "readdirBooks", "books", "readdirChunks", "chunks"}
    /\ load' = [load EXCEPT !.pc = "failed"]
    /\ UNCHANGED <<indexVars, routerVars, buildVars, redis, openai, loadsCompleted,
                   chunkFiles, chunkerVars>>

(***************************************************************************)
(* route(query, options): one step per await                               *)
(***************************************************************************)
Busy(c) == call[c].pc # "idle"

SameQuery(c, q) == Busy(c) /\ call[c].query = q

\* the synchronous start of route(): the option defaults, then either the
\* cache lookup or the embedding request is in flight
Route(c, q, options) ==
    /\ call[c].pc = "idle"
    /\ nCalls < MaxCalls
    /\ nCalls' = nCalls + 1
    /\ LET opts == MergeOptions(options)
           alone == \A d \in Callers \ {c} : ~SameQuery(d, q)
       IN  call' = [d \in Callers |->
              IF d = c
              THEN [IdleCall EXCEPT
                      !.pc = IF opts.useCache /\ redis THEN "cacheCheck" ELSE "embed",
                      !.query = q,
                      !.options = options,
                      !.opts = opts,
                      !.loadedAtCall = loadsCompleted > 0,
                      !.loadingAtCall =
                          load.pc \notin {"idle", "done", "failed"},
                      !.loadsAtCall = loadsCompleted,
                      !.alone = alone,
                      !.pred = IF alone /\ prev # Absent /\ prev[1].query = q
                               THEN prev ELSE Absent]
              ELSE IF SameQuery(d, q)
                   THEN [call[d] EXCEPT !.alone = FALSE, !.pred = Absent]
                   ELSE call[d]]
    /\ UNCHANGED <<indexVars, chunksCache, cache, prev, buildVars, redis, openai,
                   load, loadsCompleted, chunkFiles, chunkerVars>>

\* getCachedResult: a hit returns { ...cached, fromCache: true }; a miss, or
\* a Redis error (caught and logged), goes on to the search
CacheCheck(c) ==
    /\ call[c].pc = "cacheCheck"
    /\ \E fails \in BOOLEAN :
          LET key == CacheKey(call[c].query)
          IN  IF ~fails /\ key \in DOMAIN cache
              THEN call' = [call EXCEPT
                      ![c].pc = "returned",
                      ![c].result = [cache[key] EXCEPT !.fromCache = TRUE]]
              ELSE call' = [call EXCEPT
                      ![c].pc = "embed",
                      ![c].cacheOk = @ /\ ~fails]
    /\ UNCHANGED <<indexVars, chunksCache, cache, nCalls, prev, buildVars, redis,
                   openai, load, loadsCompleted, chunkFiles, chunkerVars>>

\* generateEmbedding (null without a provider or when the request fails),
\* then extractQueryKeywords
Embed(c) ==
    /\ call[c].pc = "embed"
    /\ \E e \in {Absent} \cup (IF openai THEN {Some(EmbeddingOf(call[c].query))} ELSE {}) :
          call' = [call EXCEPT
              ![c].pc = "search",
              ![c].queryEmbedding = e,
              ![c].queryKeywords = extractQueryKeywords(QueryText(call[c].query))]
    /\ UNCHANGED <<indexVars, chunksCache, cache, nCalls, prev, buildVars, redis,
                   openai, load, loadsCompleted, chunkFiles, chunkerVars>>

\* a search that goes on to Level 3 with no section candidate
SearchWithoutExit(c) ==
    /\ call[c].pc = "search"
    /\ ~searchMasterIndexThrows(masterIndex, call[c].queryKeywords)
    /\ LET relevantBooks == searchMasterIndex(masterIndex[1],
                                call[c].queryEmbedding, call[c].queryKeywords)
           sectionCandidates ==
               searchBookIndexes(relevantBooks, call[c].queryEmbedding,
                                 call[c].queryKeywords, bookIndexes)
       IN  call' = [call EXCEPT
              ![c].sawMaster = masterIndex,
              ![c].sawBooks = bookIndexes,
              ![c].books = relevantBooks,
              ![c].sections = sectionCandidates,
              ![c].pc = "level3",
              ![c].result = createEmptyResult(call[c].query)]
    /\ UNCHANGED <<indexVars, chunksCache, cache, nCalls, prev, buildVars, redis,
                   openai, load, loadsCompleted, chunkFiles, chunkerVars>>

\* searchMasterIndex and searchBookIndexes, with the NoMatch exit after
\* each: neither awaits anything, so no I/O completion of another call runs
\* between them
Search(c) ==
    /\ call[c].pc = "search"
    /\ IF searchMasterIndexThrows(masterIndex, call[c].queryKeywords)
       THEN call' = [call EXCEPT ![c].pc = "thrown"]
       ELSE LET relevantBooks == searchMasterIndex(masterIndex[1],
                                    call[c].queryEmbedding, call[c].queryKeywords)
                sectionCandidates ==
                    IF relevantBooks = <<>> THEN <<>>
                    ELSE searchBookIndexes(relevantBooks, call[c].queryEmbedding,
                                           call[c].queryKeywords, bookIndexes)
            IN  call' = [call EXCEPT
                   ![c].sawMaster = masterIndex,
                   ![c].sawBooks = bookIndexes,
                   ![c].books = relevantBooks,
                   ![c].sections = sectionCandidates,
                   ![c].pc = IF sectionCandidates = <<>> THEN "returned"
                             ELSE "level3",
                   ![c].result = createEmptyResult(call[c].query)]
    /\ UNCHANGED <<indexVars, chunksCache, cache, nCalls, prev, buildVars, redis,
                   openai, load, loadsCompleted, chunkFiles, chunkerVars>>

\* the chunk cache after retrieveChunks: every chunk read is remembered as
\* it was read (truncateChunk builds a new object)
ChunksCacheAfter(retrieved) == retrieved.cached

\* retrieveChunks, calculateConfidence and the result object
Level3(c) ==
    /\ call[c].pc = "level3"
    /\ LET retrieved == retrieveChunks(call[c].sections, call[c].opts.maxTokens,
                                       chunksCache, chunkFiles)
           chunks == retrieved.chunks
           result ==
               [query |-> call[c].query,
                books |-> call[c].books,
                sections |-> call[c].sections,
                chunks |-> chunks,
                totalTokens |-> TotalTokens(chunks),
                confidence |-> calculateConfidence(chunks, call[c].queryKeywords),
                fromCache |-> FALSE,
                strategy |-> "HierarchicalRouting"]
       IN  /\ chunksCache' = ChunksCacheAfter(retrieved)
           /\ call' = [call EXCEPT
                 ![c].result = result,
                 ![c].pc = IF call[c].opts.useCache /\ redis THEN "cacheWrite"
                           ELSE "returned"]
    /\ UNCHANGED <<indexVars, cache, nCalls, prev, buildVars, redis, openai, load,
                   loadsCompleted, chunkFiles, chunkerVars>>

\* cacheResult: setex(key, CACHE_TTL, JSON.stringify(result)); a Redis
\* error is caught and logged
CacheWrite(c) ==
    /\ call[c].pc = "cacheWrite"
    /\ \E fails \in BOOLEAN :
          LET key == CacheKey(call[c].query)
              value == JsonRoundTrip(call[c].result)
          IN  IF fails
              THEN /\ UNCHANGED cache
                   /\ call' = [call EXCEPT ![c].pc = "returned", ![c].cacheOk = FALSE]
              ELSE /\ cache' = [k \in DOMAIN cache \cup {key} |->
                                   IF k = key THEN value ELSE cache[k]]
                   /\ call' = [call EXCEPT ![c].pc = "returned",
                                           ![c].wrote = Some(value)]
    /\ UNCHANGED <<indexVars, chunksCache, nCalls, prev, buildVars, redis, openai,
                   load, loadsCompleted, chunkFiles, chunkerVars>>

\* the caller receives the result (or the error)
Finish(c) ==
    /\ call[c].pc \in {"returned", "thrown"}
    /\ prev' =
          IF call[c].pc = "thrown" THEN Absent
          ELSE Some([query |-> call[c].query,
                     chunks |-> call[c].result.chunks,
                     strategy |-> call[c].result.strategy,
                     cached |-> /\ call[c].alone
                                /\ call[c].opts.useCache
                                /\ redis
                                /\ call[c].cacheOk])
    /\ call' = [call EXCEPT ![c] = IdleCall]
    /\ UNCHANGED <<indexVars, chunksCache, cache, nCalls, buildVars, redis, openai,
                   load, loadsCompleted, chunkFiles, chunkerVars>>

\* a cache entry reaches its TTL (CACHE_TTL seconds after it was written)
Expire(q) ==
    /\ CacheKey(q) \in DOMAIN cache
    /\ cache' = [k \in DOMAIN cache \ {CacheKey(q)} |-> cache[k]]
    /\ prev' = IF prev # Absent /\ prev[1].query = q THEN Absent ELSE prev
    /\ call' = [d \in Callers |->
          IF SameQuery(d, q)
          THEN [call[d] EXCEPT !.pred = Absent, !.cacheOk = FALSE]
          ELSE call[d]]
    /\ UNCHANGED <<indexVars, chunksCache, nCalls, buildVars, redis, openai, load,
                   loadsCompleted, chunkFiles, chunkerVars>>

LoadStep ==
    \/ LoadStart
    \/ LoadMaster
    \/ LoadReaddirBooks
    \/ LoadBook
    \/ LoadReaddirChunks
    \/ LoadChunkIndex
    \/ LoadFail

\* start-up: index loads, one caller's route() calls with the default
\* options, cache expiry
Next ==
    \/ LoadStep
    \/ \E q \in Queries : Route("c1", q, NoOptions)
    \/ CacheCheck("c1")
    \/ Embed("c1")
    \/ Search("c1")
    \/ Level3("c1")
    \/ CacheWrite("c1")
    \/ Finish("c1")
    \/ \E q \in Queries : Expire(q)

Spec == Init /\ [][Next]_vars

\* serving: the state after the first loadIndexes() returned, without an
\* embedding provider (no OPENAI_API_KEY); then concurrent route() calls and
\* cache expiry
InitServe ==
    /\ masterIndex = DiskOf(1).master
    /\ bookIndexes = DiskOf(1).books
    /\ chunkIndexes = DiskOf(1).chunks
    /\ chunksCache = EmptyMap
    /\ redis \in BOOLEAN
    /\ openai = FALSE
    /\ cache = EmptyMap
    /\ call = [c \in Callers |-> IdleCall]
    /\ load = [IdleLoad EXCEPT !.pc = "done"]
    /\ loadsCompleted = 1
    /\ disk = DiskOf(1)
    /\ chunkFiles = ChunkFiles
    /\ build = IdleBuild
    /\ nCalls = 0
    /\ nBuilds = 0
    /\ prev = Absent
    /\ ChunkerIdle

NextServe ==
    \/ \E c \in Callers, in \in Inputs : Route(c, in[1], in[2])
    \/ \E c \in Callers : CacheCheck(c)
    \/ \E c \in Callers : Embed(c)
    \/ \E c \in Callers : Search(c)
    \/ \E c \in Callers : Level3(c)
    \/ \E c \in Callers : CacheWrite(c)
    \/ \E c \in Callers : Finish(c)
    \/ \E q \in Queries : Expire(q)

SpecServe == InitServe /\ [][NextServe]_vars

(***************************************************************************)
(* Reloading: the router serves index set 1 and data/indexes has changed   *)
(* since it was loaded; then loadIndexes() calls and one caller's route()  *)
(* calls with the default options                                          *)
(***************************************************************************)
\* an index set without book b: its files are gone and the master index no
\* longer names it
Without(set, b) ==
    [master |-> Some([set.master[1] EXCEPT
                        !.books = SelectSeq(@, LAMBDA x : x.id # b),
                        !.searchIndex =
                            [k \in DOMAIN @ |->
                                SelectSeq(@[k], LAMBDA r : r.bookId # b)],
                        !.thematicMap =
                            [k \in DOMAIN @ |->
                                SelectSeq(@[k], LAMBDA r : r.bookId # b)]]),
     books |-> [x \in DOMAIN set.books \ {b} |-> set.books[x]],
     chunks |-> [x \in DOMAIN set.chunks \ {b} |-> set.chunks[x]]]

\* what data/indexes holds now: the set of a later build, or the first set
\* after book sm was removed
ChangedDisks == {IndexSet(2, 1), Without(DiskOf(1), "sm")}

InitReload ==
    /\ masterIndex = DiskOf(1).master
    /\ bookIndexes = DiskOf(1).books
    /\ chunkIndexes = DiskOf(1).chunks
    /\ chunksCache = EmptyMap
    /\ redis \in BOOLEAN
    /\ openai = FALSE
    /\ cache = EmptyMap
    /\ call = [c \in Callers |-> IdleCall]
    /\ load = [IdleLoad EXCEPT !.pc = "done"]
    /\ loadsCompleted = 1
    /\ disk \in ChangedDisks
    /\ chunkFiles = ChunkFiles
    /\ build = IdleBuild
    /\ nCalls = 0
    /\ nBuilds = 0
    /\ prev = Absent
    /\ ChunkerIdle

NextReload ==
    \/ LoadStep
    \/ \E q \in Queries : Route("c1", q, NoOptions)
    \/ CacheCheck("c1")
    \/ Embed("c1")
    \/ Search("c1")
    \/ Level3("c1")
    \/ CacheWrite("c1")
    \/ Finish("c1")
    \/ \E q \in Queries : Expire(q)

SpecReload == InitReload /\ [][NextReload]_vars

(***************************************************************************)
(* Level 3 alone: retrieveChunks(candidates, maxTokens) on any candidate   *)
(* list, budget and chunk store                                            *)
(***************************************************************************)
Candidate(b, ids, score) ==
    [bookId |-> b, sectionId |-> ids, score |-> score, chunkIds |-> ids]

CandidateChunkIds ==
    {<<"lm", <<"lm_0">>>>, <<"lm", <<"lm_0", "lm_1">>>>, <<"lm", <<"lm_1", "lm_0">>>>,
     <<"lm", <<"lm_2", "lm_3">>>>, <<"lm", <<"lm_3">>>>, <<"sm", <<"sm_0">>>>}

\* one or two section candidates, the higher score first
CandidateLists ==
    {<<Candidate(x[1], x[2], 300000)>> : x \in CandidateChunkIds}
    \cup {<<Candidate(p[1][1], p[1][2], 300000),
              Candidate(p[2][1], p[2][2], 200000)>> :
             p \in {q \in CandidateChunkIds \X CandidateChunkIds : q[1] # q[2]}}

Budgets ==
    {Absent, Some(5000), Some(65000), Some(100000), Some(600000), Some(900000)}

\* chunk stores: every chunk file, or the files of book sm only
ChunkStores ==
    {ChunkFiles, [f \in {<<"sm", "sm_0">>} |-> ChunkFiles[f]]}

InitRetrieve ==
    /\ masterIndex = DiskOf(1).master
    /\ bookIndexes = DiskOf(1).books
    /\ chunkIndexes = DiskOf(1).chunks
    /\ chunksCache = EmptyMap
    /\ redis \in BOOLEAN
    /\ openai = FALSE
    /\ cache = EmptyMap
    /\ \E candidates \in CandidateLists, maxTokens \in Budgets :
          call = [c \in Callers |->
              IF c = "c1"
              THEN [IdleCall EXCEPT
                      !.pc = "level3",
                      !.query = "joie",
                      !.options = [maxTokens |-> maxTokens],
                      !.opts = MergeOptions([maxTokens |-> maxTokens]),
                      !.queryKeywords = extractQueryKeywords(QueryText("joie")),
                      !.sections = candidates,
                      !.loadedAtCall = TRUE,
                      !.alone = TRUE,
                      !.sawMaster = DiskOf(1).master,
                      !.sawBooks = DiskOf(1).books]
              ELSE IdleCall]
    /\ load = [IdleLoad EXCEPT !.pc = "done"]
    /\ loadsCompleted = 1
    /\ disk = DiskOf(1)
    /\ chunkFiles \in ChunkStores
    /\ build = IdleBuild
    /\ nCalls = 1
    /\ nBuilds = 0
    /\ prev = Absent
    /\ ChunkerIdle

NextRetrieve == Level3("c1") \/ CacheWrite("c1") \/ Finish("c1")

SpecRetrieve == InitRetrieve /\ [][NextRetrieve]_vars

(***************************************************************************)
(* Levels 1 and 2 on a larger corpus: four books, six sections in the      *)
(* first and three in each of the others                                   *)
(***************************************************************************)
WideBookIds == <<"lm", "sm", "cm", "kh">>

SectionNames == <<"s1", "s2", "s3", "s4", "s5", "s6">>

\* counts[i]: the occurrences of the keyword in book i, as its search-index
\* reference gives them
WideMaster(counts) ==
    [created |-> 1,
     books |-> [i \in 1..Len(WideBookIds) |->
                  [id |-> WideBookIds[i], title |-> WideBookIds[i],
                   keywordEmbeddings |-> Absent]],
     searchIndex |->
        [k \in {"simcha_he"} |->
            [i \in 1..Len(WideBookIds) |-> Ref(WideBookIds[i], counts[i])]],
     thematicMap |-> [k \in {"simcha_he"} |-> <<>>]]

\* every section names the theme, every other one the keyword as well
WideBook(b) ==
    [bookId |-> b,
     created |-> 1,
     sections |->
        [k \in 1..(IF b = "lm" THEN 6 ELSE 3) |->
            Section(SectionNames[k],
                    IF k % 2 = 1 THEN {"simcha_he"} ELSE {},
                    {"simcha_he"},
                    IF b = "lm" /\ k = 1 THEN <<"lm_0">> ELSE <<>>,
                    Absent)]]

KeywordCounts == {20, 90, 200}

InitSearch ==
    /\ \E counts \in [1..Len(WideBookIds) -> KeywordCounts] :
          /\ masterIndex = Some(WideMaster(counts))
          /\ disk = [master |-> Some(WideMaster(counts)),
                     books  |-> [b \in Range(WideBookIds) |-> WideBook(b)],
                     chunks |-> [b \in Range(WideBookIds) |-> <<>>]]
    /\ bookIndexes = [b \in Range(WideBookIds) |-> WideBook(b)]
    /\ chunkIndexes = [b \in Range(WideBookIds) |-> <<>>]
    /\ chunksCache = EmptyMap
    /\ redis \in BOOLEAN
    /\ openai = FALSE
    /\ cache = EmptyMap
    /\ call = [c \in Callers |->
          IF c = "c1"
          THEN [IdleCall EXCEPT
                  !.pc = "search",
                  !.query = "joie",
                  !.queryKeywords = extractQueryKeywords(QueryText("joie")),
                  !.loadedAtCall = TRUE,
                  !.alone = TRUE]
          ELSE IdleCall]
    /\ load = [IdleLoad EXCEPT !.pc = "done"]
    /\ loadsCompleted = 1
    /\ chunkFiles = ChunkFiles
    /\ build = IdleBuild
    /\ nCalls = 1
    /\ nBuilds = 0
    /\ prev = Absent
    /\ ChunkerIdle

NextSearch ==
    Search("c1") \/ Level3("c1") \/ CacheWrite("c1") \/ Finish("c1")

SpecSearch == InitSearch /\ [][NextSearch]_vars

\* progress: one caller's route() calls on loaded indexes, with or without
\* an embedding provider
InitLive ==
    /\ masterIndex = DiskOf(1).master
    /\ bookIndexes = DiskOf(1).books
    /\ chunkIndexes = DiskOf(1).chunks
    /\ chunksCache = EmptyMap
    /\ redis \in BOOLEAN
    /\ openai \in BOOLEAN
    /\ cache = EmptyMap
    /\ call = [c \in Callers |-> IdleCall]
    /\ load = [IdleLoad EXCEPT !.pc = "done"]
    /\ loadsCompleted = 1
    /\ disk = DiskOf(1)
    /\ chunkFiles = ChunkFiles
    /\ build = IdleBuild
    /\ nCalls = 0
    /\ nBuilds = 0
    /\ prev = Absent
    /\ ChunkerIdle

NextLive ==
    \/ \E in \in Inputs : Route("c1", in[1], in[2])
    \/ CacheCheck("c1")
    \/ Embed("c1")
    \/ Search("c1")
    \/ Level3("c1")
    \/ CacheWrite("c1")
    \/ Finish("c1")
    \/ \E q \in Queries : Expire(q)

\* The event loop runs the continuation of every await that settles.  The
\* Redis commands and the chunk reads settle, and so does generateEmbedding
\* without a provider (it returns null at once).  With a provider the call
\* settles when embeddings.create answers or fails: generateEmbedding sets
\* no timer and passes no signal, so nothing makes a silent provider's
\* request settle.
\* Search and Level3 await nothing that can stay pending; each is enabled
\* exactly when the call stands at its position and is the only step that
\* leaves it, so its weak fairness is written by that position.
Progress ==
    /\ WF_vars(CacheCheck("c1"))
    /\ WF_vars(Embed("c1") /\ ~openai)
    /\ []<>(call["c1"].pc # "search")
    /\ []<>(call["c1"].pc # "level3")
    /\ WF_vars(CacheWrite("c1"))

SpecLive == InitLive /\ [][NextLive]_vars /\ Progress

(***************************************************************************)
(* buildAllIndexes(): the indexes are constructed in memory, then          *)
(* saveIndexes writes them file by file, one step per await                *)
(***************************************************************************)
Building == build.pc \in {"master", "books", "chunks"}

\* ensureIndexDirectory and the three construction stages: nothing shared
\* is written before saveIndexes
BuildStart(v) ==
    /\ ~Building
    /\ nBuilds < MaxBuilds
    /\ nBuilds' = nBuilds + 1
    /\ build' = [build EXCEPT !.pc = "master", !.input = v, !.files = <<>>,
                              !.created = nBuilds + 1]
    /\ load' = [load EXCEPT !.afterFailedBuild = FALSE]
    /\ UNCHANGED <<indexVars, routerVars, disk, redis, openai, loadsCompleted,
                   chunkFiles, chunkerVars>>

\* fs.writeFile(master/index.json)
SaveMaster ==
    /\ build.pc = "master"
    /\ disk' = [disk EXCEPT !.master = IndexSet(build.input, build.created).master]
    /\ build' = [build EXCEPT !.pc = "books", !.files = <<"lm", "sm">>]
    /\ UNCHANGED <<indexVars, routerVars, nBuilds, redis, openai, load,
                   loadsCompleted, chunkFiles, chunkerVars>>

\* one turn of the loop over bookIndexes
SaveBook ==
    /\ build.pc = "books"
    /\ IF build.files = <<>>
       THEN /\ build' = [build EXCEPT !.pc = "chunks", !.files = <<"lm", "sm">>]
            /\ UNCHANGED disk
       ELSE LET b == Head(build.files)
            IN  /\ disk' = [disk EXCEPT !.books[b] =
                               IndexSet(build.input, build.created).books[b]]
                /\ build' = [build EXCEPT !.files = Tail(@)]
    /\ UNCHANGED <<indexVars, routerVars, nBuilds, redis, openai, load,
                   loadsCompleted, chunkFiles, chunkerVars>>

\* one turn of the loop over chunksByBook; after the last one the call
\* returns
SaveChunkIndexes ==
    /\ build.pc = "chunks"
    /\ IF build.files = <<>>
       THEN /\ build' = [build EXCEPT !.pc = "done"]
            /\ UNCHANGED disk
       ELSE LET b == Head(build.files)
            IN  /\ disk' = [disk EXCEPT !.chunks[b] =
                               IndexSet(build.input, build.created).chunks[b]]
                /\ build' = [build EXCEPT !.files = Tail(@)]
    /\ UNCHANGED <<indexVars, routerVars, nBuilds, redis, openai, load,
                   loadsCompleted, chunkFiles, chunkerVars>>

\* a write is rejected (disk full, permissions): buildAllIndexes rejects
BuildFail ==
    /\ Building
    /\ build' = [build EXCEPT !.pc = "failed"]
    /\ UNCHANGED <<indexVars, routerVars, disk, nBuilds, redis, openai, load,
                   loadsCompleted, chunkFiles, chunkerVars>>

BuildStep ==
    \/ \E v \in Versions : BuildStart(v)
    \/ SaveMaster
    \/ SaveBook
    \/ SaveChunkIndexes
    \/ BuildFail

\* rebuilding: index builds and index loads, no queries
InitBuild ==
    /\ Init
    /\ redis = FALSE
    /\ openai = FALSE

NextBuild == BuildStep \/ LoadStep

SpecBuild == InitBuild /\ [][NextBuild]_vars

(***************************************************************************)
(* IndexBuilder.  A string is kept as what it is made of and its length   *)
(* in characters.  An object's property map (a Record) is kept as the     *)
(* sequence of its entries in insertion order.  The arrays                *)
(* chunk.metadata.themes of the input chunks live in a memory, place ->   *)
(* array, and an index that is given such an array holds its place, as    *)
(* the code holds a reference: it is read when the index is serialized or *)
(* returned.  Citations and embeddings are empty in the inputs and the    *)
(* related-chunk and BM25 fields of a Chunk Index, which no other tier    *)
(* reads, are left out.                                                   *)
(***************************************************************************)
Str(text, len) == [text |-> text, len |-> len]

\* F(v), with v computed once
Bind(v, F(_)) == CHOOSE r \in {F(x) : x \in {v}} : TRUE

\* s.substring(0, n)
Substring(s, n) == [text |-> s.text, len |-> Min(s.len, n)]

\* the place of an input chunk's themes array
ThemesOf(chunk) == [owner |-> "chunk", id |-> chunk.id]

\* items in first-occurrence order with their counts
countOccurrences(items) ==
    LET keys == Dedup(items)
    IN  [i \in 1..Len(keys) |->
            [key |-> keys[i],
             score |-> Cardinality({j \in 1..Len(items) : items[j] = keys[i]})]]

stopWords == {"et_he", "shel_he"}

\* the 50 most frequent words longer than 2 characters that are no stop
\* words, the most frequent first
extractKeywords(text) ==
    LET kept   == SelectSeq(text, LAMBDA p : p.word \notin stopWords /\ p.len > 2)
        sorted == SortDesc(countOccurrences([i \in 1..Len(kept) |-> kept[i].word]))
    IN  [i \in 1..Min(50, Len(sorted)) |-> sorted[i].key]

buildChunkIndex(chunk) ==
    [chunkId |-> chunk.id, bookId |-> chunk.bookId,
     reference |-> chunk.reference, tokenCount |-> chunk.tokenCount,
     themes |-> ThemesOf(chunk),
     keywords |-> extractKeywords(chunk.hebrew),
     relatedChunks |-> <<>>]

\* a.filter(x => b.includes(x)).length
CommonCount(a, b) ==
    Len(SelectSeq(a, LAMBDA x : \E k \in 1..Len(b) : b[k] = x))

\* themeScore * 0.6 + keywordScore * 0.4 in units of 1/2520, which keeps
\* every ratio over lists of at most 10 items exact; a ratio
\* 0 / Math.max(0, 0) is NaN and so is the sum
Similarity(themes, keywords, otherThemes, otherKeywords) ==
    LET mostThemes == IF Len(themes) > Len(otherThemes) THEN Len(themes)
                      ELSE Len(otherThemes)
        mostKeywords == IF Len(keywords) > Len(otherKeywords) THEN Len(keywords)
                        ELSE Len(otherKeywords)
    IN  IF mostThemes = 0 \/ mostKeywords = 0 THEN NotANumber
        ELSE Number(
               (1512 * CommonCount(themes, otherThemes)) \div mostThemes
               + (1008 * CommonCount(keywords, otherKeywords)) \div mostKeywords,
               2520)

\* findRelatedChunks: every chunk index of every book is compared with every
\* other one; NaN > 0.3 is false
findRelatedChunks(entries, mem) ==
    [i \in 1..Len(entries) |->
        LET chunk == entries[i]
            scored == [j \in 1..Len(entries) |->
                [id |-> entries[j].chunkId,
                 total |-> Similarity(mem[chunk.themes], chunk.keywords,
                               mem[entries[j].themes], entries[j].keywords)]]
            related == SelectSeq(scored, LAMBDA r :
                /\ r.id # chunk.chunkId
                /\ r.total # NotANumber
                /\ 10 * r.total.num > 3 * r.total.den)
            sorted == SortDesc([n \in 1..Len(related) |->
                [id |-> related[n].id, score |-> related[n].total.num]])
        IN  [chunk EXCEPT
                !.relatedChunks = [n \in 1..Min(5, Len(sorted)) |-> sorted[n].id]]]

\* the chunk indexes of every book, in the map's order, then
\* findRelatedChunks
buildChunkIndexes(books, chunksMap, mem) ==
    findRelatedChunks(
        Flatten([b \in 1..Len(books) |->
            [i \in 1..Len(chunksMap[books[b].id]) |->
                buildChunkIndex(chunksMap[books[b].id][i])]]), mem)

\* a SectionInfo that takes over the array of its first chunk
SectionThemesShared(chunk) == ThemesOf(chunk)

\* themes: [] of a new SectionInfo: an array of its own
SectionThemes(chunk) == [owner |-> "section", id |-> <<chunk.sectionId, 0>>]

\* the loop of buildSectionInfo over the chunks: st.sections in the order
\* of the Map, st.mem the memory
RECURSIVE SectionInfoFrom(_, _)
SectionInfoFrom(chunks, st) ==
    IF chunks = <<>> THEN st
    ELSE LET chunk == Head(chunks)
             known == {k \in 1..Len(st.sections) :
                          st.sections[k].id = chunk.sectionId}
             fresh == [id |-> chunk.sectionId,
                       title |-> Str(<<"Section", chunk.sectionId>>, 16),
                       themes |-> SectionThemes(chunk),
                       chunkIds |-> <<>>, tokenCount |-> 0, keywords |-> <<>>]
             sections == IF known = {} THEN Append(st.sections, fresh)
                         ELSE st.sections
             k == CHOOSE n \in 1..Len(sections) :
                      sections[n].id = chunk.sectionId
             themes == sections[k].themes
             mem == IF themes \in DOMAIN st.mem THEN st.mem
                    ELSE (themes :> <<>>) @@ st.mem
         IN  Bind([sections |-> [sections EXCEPT
                       ![k].chunkIds = Append(@, chunk.id),
                       ![k].tokenCount = @ + chunk.tokenCount,
                       ![k].keywords = @ \o extractKeywords(chunk.hebrew)],
                   mem |-> [mem EXCEPT ![themes] = @ \o mem[ThemesOf(chunk)]]],
                  LAMBDA next : SectionInfoFrom(Tail(chunks), next))

\* `${section.title}: ${section.themes.slice(0, 3).join(', ')}`
generateSectionSummary(title, themes) ==
    Str(<<title.text, Take(themes, 3)>>, title.len + 2 + 8 * Len(Take(themes, 3)))

\* buildSectionInfo: the sections with their themes and keywords replaced
\* by new, deduplicated arrays, and the memory it leaves
buildSectionInfo(chunks, mem) ==
    LET st == SectionInfoFrom(chunks, [sections |-> <<>>, mem |-> mem])
    IN  [sections |->
            [k \in 1..Len(st.sections) |->
                LET section == st.sections[k]
                    themes == Dedup(st.mem[section.themes])
                IN  [section EXCEPT
                        !.themes = themes,
                        !.keywords = Take(Dedup(@), 20)]
                    @@ [summary |-> generateSectionSummary(section.title, themes)]],
         mem |-> [p \in {q \in DOMAIN st.mem : q.owner = "chunk"} |-> st.mem[p]]]

Includes(title, words) == \E i \in 1..Len(title.text) : title.text[i] \in words

\* buildHierarchy.  A Torah node takes over the chunk ids of the sections
\* that follow it; a title is `Section ${sectionId}`
RECURSIVE buildTorahHierarchy(_, _)
buildTorahHierarchy(sections, torahs) ==
    IF sections = <<>> THEN torahs
    ELSE LET section == Head(sections)
         IN  IF Includes(section.title, {"Torah", "torah_he"})
             THEN buildTorahHierarchy(Tail(sections),
                     Append(torahs, [id |-> <<"torah", Len(torahs) + 1>>,
                                     type |-> "torah", title |-> section.title,
                                     chunkIds |-> section.chunkIds]))
             ELSE IF torahs # <<>>
             THEN buildTorahHierarchy(Tail(sections),
                     [torahs EXCEPT ![Len(torahs)].chunkIds = @ \o section.chunkIds])
             ELSE buildTorahHierarchy(Tail(sections), torahs)

buildHierarchy(aBook, sections) ==
    LET Nodes(type, ss) ==
            [k \in 1..Len(ss) |->
                [id |-> IF type = "section" THEN <<ss[k].id, 0>> ELSE <<type, k>>,
                 type |-> type, title |-> ss[k].title,
                 chunkIds |-> ss[k].chunkIds]]
    IN  IF aBook.id = "likutey_moharan" THEN buildTorahHierarchy(sections, <<>>)
        ELSE IF aBook.id = "sippurei_maasiyot"
        THEN Nodes("story", SelectSeq(sections, LAMBDA s :
                 \/ \E i \in 1..Len(s.themes) : s.themes[i] = "story"
                 \/ Includes(s.title, {"maase_he"})))
        ELSE IF aBook.id = "tefilot" THEN Nodes("prayer", sections)
        ELSE Nodes("section", sections)

\* `${chunk.metadata.reference}: ${preview}...`
generateChunkSummary(chunk) ==
    Str(<<"summary", chunk.id>>,
        chunk.reference.len + 2 + Min(TextLen(chunk.hebrew), 100) + 3)

buildChunkReference(chunk) ==
    [id |-> chunk.id, sectionId |-> chunk.sectionId,
     reference |-> chunk.reference,
     summary |-> generateChunkSummary(chunk),
     keywords |-> Take(extractKeywords(chunk.hebrew), 10),
     themes |-> ThemesOf(chunk),
     tokenCount |-> chunk.tokenCount]

\* theme -> the id of the chunk, once for every time the chunk names it
buildThematicMap(chunks, mem) ==
    LET named == Flatten([i \in 1..Len(chunks) |->
                    [k \in 1..Len(mem[ThemesOf(chunks[i])]) |->
                        [theme |-> mem[ThemesOf(chunks[i])][k],
                         id |-> chunks[i].id]]])
        themes == Dedup([n \in 1..Len(named) |-> named[n].theme])
    IN  [t \in 1..Len(themes) |->
            LET hits == SelectSeq(named, LAMBDA n : n.theme = themes[t])
            IN  [key |-> themes[t], chunkIds |-> [n \in 1..Len(hits) |-> hits[n].id]]]

\* the thematic connections of every pair of sections; the inputs carry no
\* citation
findCrossReferences(sections) ==
    LET Common(i, j) ==
            SelectSeq(sections[i].themes,
                      LAMBDA t : \E k \in 1..Len(sections[j].themes) :
                                     sections[j].themes[k] = t)
        pairs == Flatten([i \in 1..Len(sections) |->
                    [d \in 1..(Len(sections) - i) |-> <<i, i + d>>]])
        linked == SelectSeq(pairs, LAMBDA p : Common(p[1], p[2]) # <<>>)
    IN  [n \in 1..Len(linked) |->
            LET i == linked[n][1]
                j == linked[n][2]
                li == Len(sections[i].themes)
                lj == Len(sections[j].themes)
            IN  [fromSection |-> sections[i].id, toSection |-> sections[j].id,
                 type |-> "theme",
                 strength |-> <<Len(Common(i, j)), IF li > lj THEN li ELSE lj>>]]

\* buildBookIndex: the index and the memory building it leaves
buildBookIndex(aBook, chunks, mem) ==
    LET built == buildSectionInfo(chunks, mem)
    IN  [index |->
            [bookId |-> aBook.id, title |-> aBook.title,
             hebrewTitle |-> aBook.hebrewTitle,
             sections |-> built.sections,
             hierarchy |-> buildHierarchy(aBook, built.sections),
             chunks |-> [i \in 1..Len(chunks) |-> buildChunkReference(chunks[i])],
             thematicMap |-> buildThematicMap(chunks, built.mem),
             crossReferences |-> findCrossReferences(built.sections),
             totalTokens |-> SumSeq([i \in 1..Len(chunks) |-> chunks[i].tokenCount])],
         mem |-> built.mem]

\* Math.ceil(JSON.stringify(index).length / 4), the serialization counted
\* by the strings of the entries, which carry its bulk
estimateIndexSize(strings) ==
    (SumSeq([i \in 1..Len(strings) |-> strings[i].len]) + 3) \div 4

BookIndexStrings(index) ==
    <<index.title, index.hebrewTitle>>
    \o Flatten([i \in 1..Len(index.chunks) |->
           <<index.chunks[i].reference, index.chunks[i].summary>>])
    \o Flatten([k \in 1..Len(index.sections) |->
           <<index.sections[k].title, index.sections[k].summary>>])

compressBookIndex(index) ==
    [index EXCEPT
        !.chunks = [i \in 1..Len(@) |->
            [@[i] EXCEPT !.summary = Substring(@, 50), !.keywords = Take(@, 5)]],
        !.sections = [k \in 1..Len(@) |->
            [@[k] EXCEPT !.keywords = Take(@, 10), !.summary = Substring(@, 50)]]]

\* buildBookIndexes: st.indexes, one index per book in the books' order, and
\* st.mem
RECURSIVE buildBookIndexes(_, _, _)
buildBookIndexes(books, chunksMap, st) ==
    IF books = <<>> THEN st
    ELSE LET aBook == Head(books)
             built == buildBookIndex(aBook, chunksMap[aBook.id], st.mem)
             indexSize == estimateIndexSize(BookIndexStrings(built.index))
         IN  Bind([indexes |-> Append(st.indexes,
                       IF indexSize > 200000 THEN compressBookIndex(built.index)
                       ELSE built.index),
                   mem |-> built.mem],
                  LAMBDA next : buildBookIndexes(Tail(books), chunksMap, next))

\* the ten themes with the most chunk ids, the largest first
extractTopThemes(bookIndex) ==
    LET counts == [t \in 1..Len(bookIndex.thematicMap) |->
                      [key |-> bookIndex.thematicMap[t].key,
                       score |-> Len(bookIndex.thematicMap[t].chunkIds)]]
        sorted == SortDesc(counts)
    IN  [i \in 1..Min(10, Len(sorted)) |-> sorted[i].key]

\* `${book.hebrewTitle}: ${sections} sections, ${chunks} chunks. Main themes: ...`
generateBookSummary(aBook, bookIndex) ==
    Str([book |-> aBook.id, sections |-> Len(bookIndex.sections),
         chunks |-> Len(bookIndex.chunks), themes |-> extractTopThemes(bookIndex)],
        aBook.hebrewTitle.len + 44 + 8 * Len(extractTopThemes(bookIndex)))

\* index[key].push(item), the entry made first when the key is new
PushAt(index, key, item) ==
    IF \E n \in 1..Len(index) : index[n].key = key
    THEN [n \in 1..Len(index) |->
             IF index[n].key = key
             THEN [index[n] EXCEPT !.refs = Append(@, item)] ELSE index[n]]
    ELSE Append(index, [key |-> key, refs |-> <<item>>])

RECURSIVE PushAll(_, _)
PushAll(index, items) ==
    IF items = <<>> THEN index
    ELSE Bind(PushAt(index, Head(items).key, Head(items).item),
              LAMBDA pushed : PushAll(pushed, Tail(items)))

\* the book's themes with their chunk counts, then the keywords of its
\* chunk references that occur more than 5 times
updateGlobalSearchIndex(index, bookId, bookIndex) ==
    LET themes == [t \in 1..Len(bookIndex.thematicMap) |->
                      [key |-> bookIndex.thematicMap[t].key,
                       item |-> <<bookId, Len(bookIndex.thematicMap[t].chunkIds)>>]]
        counts == countOccurrences(Flatten([i \in 1..Len(bookIndex.chunks) |->
                      bookIndex.chunks[i].keywords]))
        frequent == SelectSeq(counts, LAMBDA c : c.score > 5)
    IN  PushAll(index, themes \o [n \in 1..Len(frequent) |->
            [key |-> frequent[n].key, item |-> <<bookId, frequent[n].score>>]])

updateGlobalThematicMap(map, bookId, bookIndex) ==
    PushAll(map, [t \in 1..Len(bookIndex.thematicMap) |->
        [key |-> bookIndex.thematicMap[t].key,
         item |-> [bookId |-> bookId,
                   weight |-> <<Len(bookIndex.thematicMap[t].chunkIds),
                                Len(bookIndex.chunks)>>]]])

compressMasterIndex(index) ==
    [index EXCEPT
        !.books = [b \in 1..Len(@) |->
            [@[b] EXCEPT !.summary = Substring(@, 100), !.themes = Take(@, 5)]],
        !.searchIndex = [n \in 1..Len(@) |->
            [@[n] EXCEPT !.refs = Take(@, 10)]]]

RECURSIVE MasterFrom(_, _, _)
MasterFrom(books, indexes, st) ==
    IF books = <<>> THEN st
    ELSE LET aBook == books[1]
             bookIndex == indexes[1]
         IN  Bind(
                [books |-> Append(st.books,
                     [id |-> aBook.id, title |-> aBook.title,
                      hebrewTitle |-> aBook.hebrewTitle,
                      sections |-> Len(bookIndex.sections),
                      chunks |-> Len(bookIndex.chunks),
                      totalTokens |-> bookIndex.totalTokens,
                      themes |-> extractTopThemes(bookIndex),
                      summary |-> generateBookSummary(aBook, bookIndex)]),
                 totalTokens |-> st.totalTokens + bookIndex.totalTokens,
                 searchIndex |-> updateGlobalSearchIndex(st.searchIndex,
                                     aBook.id, bookIndex),
                 thematicMap |-> updateGlobalThematicMap(st.thematicMap,
                                     aBook.id, bookIndex)],
                LAMBDA next : MasterFrom(Tail(books), Tail(indexes), next))

MasterIndexStrings(index) ==
    Flatten([b \in 1..Len(index.books) |->
        <<index.books[b].title, index.books[b].hebrewTitle, index.books[b].summary>>])

\* buildMasterIndex: every book has an index, bookIndexes[b] that of books[b]
buildMasterIndex(books, indexes) ==
    LET st == MasterFrom(books, indexes,
                  [books |-> <<>>, totalTokens |-> 0, searchIndex |-> <<>>,
                   thematicMap |-> <<>>])
        master == [version |-> "1.0.0", totalBooks |-> Len(books),
                        totalTokens |-> st.totalTokens, books |-> st.books,
                        searchIndex |-> st.searchIndex,
                        thematicMap |-> st.thematicMap]
    IN  IF estimateIndexSize(MasterIndexStrings(master)) > 100000
        THEN compressMasterIndex(master)
        ELSE master

\* what a reader of an index sees: the arrays it holds by reference are read
\* in the memory
Read(entries, mem) ==
    [i \in 1..Len(entries) |-> [entries[i] EXCEPT !.themes = mem[@]]]

\* buildAllIndexes(books, chunksMap) at time t: the three tiers as they are
\* serialized and returned, and the memory the build leaves
IndexesOf(books, chunksMap, mem, t) ==
    Bind(buildChunkIndexes(books, chunksMap, mem), LAMBDA entries :
    Bind(buildBookIndexes(books, chunksMap, [indexes |-> <<>>, mem |-> mem]),
         LAMBDA built :
    Bind(buildMasterIndex(books, built.indexes), LAMBDA master :
        [masterIndex |-> Stamped(master, t),
         bookIndexes |-> [b \in 1..Len(books) |->
             Stamped([built.indexes[b] EXCEPT !.chunks = Read(@, built.mem)], t)],
         chunkIndexes |-> [i \in 1..Len(entries) |->
             Stamped([entries[i] EXCEPT !.themes = built.mem[@]], t)],
         mem |-> built.mem])))

(***************************************************************************)
(* The inputs of buildAllIndexes(books, chunksMap)                         *)
(***************************************************************************)
IndexedBook(id, titleChars) ==
    [id |-> id, title |-> Str(<<"title", id>>, 20),
     hebrewTitle |-> Str(<<"hebrewTitle", id>>, titleChars)]

IndexedChunk(bookId, n, sectionId, referenceChars, hebrew) ==
    [id |-> <<bookId, n>>, bookId |-> bookId, sectionId |-> sectionId,
     reference |-> Str(<<"reference", bookId, n>>, referenceChars),
     hebrew |-> hebrew, tokenCount |-> estimateTokens(TextLen(hebrew))]

ThemeLists == {<<>>, <<"simcha">>, <<"simcha", "story">>}

\* two books of two chunks, the chunks of the first in one section; a long
\* title and a long reference make an index pass its size target, the
\* longest also without the summaries that repeat them
IndexInputs ==
    {LET chunksMap ==
             [b \in {"likutey_moharan", "sichot_haran"} |->
                 IF b = "likutey_moharan"
                 THEN <<IndexedChunk(b, 0, "torah_1", referenceChars,
                            <<Hebrew("simcha_he", 6), Hebrew("et_he", 3),
                              Hebrew("simcha_he", 6), Hebrew("emuna_he", 6)>>),
                        IndexedChunk(b, 1, "torah_1", 20,
                            <<Hebrew("emuna_he", 6), Hebrew("lo", 2)>>)>>
                 ELSE <<IndexedChunk(b, 0, "unit_1", 20,
                            <<Hebrew("simcha_he", 6)>>),
                        IndexedChunk(b, 1, "unit_2", 20,
                            <<Hebrew("emuna_he", 6), Hebrew("simcha_he", 6)>>)>>]
     IN  [books |-> <<IndexedBook("likutey_moharan", titleChars),
                      IndexedBook("sichot_haran", 20)>>,
          chunksMap |-> chunksMap,
          mem |-> [p \in {ThemesOf(chunksMap[b][i]) :
                              b \in DOMAIN chunksMap, i \in 1..2} |->
                      IF p.id = <<"likutey_moharan", 0>> THEN t1
                      ELSE IF p.id[2] = 1 THEN t2 ELSE t3]] :
        titleChars \in {20, 250000, 450000},
        referenceChars \in {20, 450000, 900000},
        t1 \in ThemeLists, t2 \in ThemeLists, t3 \in ThemeLists}

(***************************************************************************)
(* buildAllIndexes(books, chunksMap) on chunk input: the three tiers are   *)
(* built in memory, then saved                                             *)
(***************************************************************************)
\* ensureIndexDirectory, buildChunkIndexes, buildBookIndexes and
\* buildMasterIndex
BuildIndexes ==
    /\ build.pc = "idle"
    /\ build.given # NoIndexInput
    /\ nBuilds < MaxBuilds
    /\ nBuilds' = nBuilds + 1
    /\ \E built \in {IndexesOf(build.given.books, build.given.chunksMap,
                                build.memory, nBuilds + 1)} :
           build' = [build EXCEPT
              !.pc = "save",
              !.memory = built.mem,
              !.indexes = Some([f \in {"masterIndex", "bookIndexes",
                                       "chunkIndexes"} |-> built[f]])]
    /\ UNCHANGED <<indexVars, routerVars, disk, redis, openai, load,
                   loadsCompleted, chunkFiles, chunkerVars>>

\* saveIndexes writes every file and buildAllIndexes returns the indexes
SaveIndexes ==
    /\ build.pc = "save"
    /\ disk' = [master |-> Some(build.indexes[1].masterIndex),
                books  |-> build.indexes[1].bookIndexes,
                chunks |-> build.indexes[1].chunkIndexes]
    /\ build' = [build EXCEPT !.pc = "idle", !.indexes = Absent,
                              !.returned = Append(@, build.indexes[1])]
    /\ UNCHANGED <<indexVars, routerVars, nBuilds, redis, openai, load,
                   loadsCompleted, chunkFiles, chunkerVars>>

\* a write is rejected: buildAllIndexes rejects, at the first file or after
\* the master index was written
SaveIndexesFail ==
    /\ build.pc = "save"
    /\ \/ UNCHANGED disk
       \/ disk' = [disk EXCEPT !.master = Some(build.indexes[1].masterIndex)]
    /\ build' = [build EXCEPT !.pc = "idle", !.indexes = Absent]
    /\ UNCHANGED <<indexVars, routerVars, nBuilds, redis, openai, load,
                   loadsCompleted, chunkFiles, chunkerVars>>

\* index building: buildAllIndexes called again and again on one input
InitIndex ==
    /\ masterIndex = Absent
    /\ bookIndexes = EmptyMap
    /\ chunkIndexes = EmptyMap
    /\ chunksCache = EmptyMap
    /\ redis = FALSE
    /\ openai = FALSE
    /\ cache = EmptyMap
    /\ call = [c \in Callers |-> IdleCall]
    /\ load = IdleLoad
    /\ loadsCompleted = 0
    /\ disk = DiskOf(1)
    /\ chunkFiles = ChunkFiles
    /\ \E given \in IndexInputs :
          build = [IdleBuild EXCEPT !.given = given, !.memory = given.mem]
    /\ nCalls = 0
    /\ nBuilds = 0
    /\ prev = Absent
    /\ ChunkerIdle

NextIndex == BuildIndexes \/ SaveIndexes \/ SaveIndexesFail

SpecIndex == InitIndex /\ [][NextIndex]_vars

(***************************************************************************)
(* chunkBook(book, options)                                                *)
(***************************************************************************)
\* the option defaults, identifySemanticUnits and groupUnitsIntoChunks
ChunkBook ==
    /\ chunking.pc = "idle"
    /\ book # NoBook
    /\ LET opts == MergeChunkingOptions(book.options)
           semanticUnits == identifySemanticUnits(book)
       IN  chunking' = [chunking EXCEPT
              !.pc = "create",
              !.opts = opts,
              !.semanticUnits = semanticUnits,
              !.groupedUnits = groupUnitsIntoChunks(semanticUnits, opts)]
    /\ UNCHANGED <<indexVars, routerVars, buildVars, redis, openai, load,
                   loadsCompleted, chunkFiles, book, engine>>

\* one turn of the loop over groupedUnits
CreateChunk ==
    /\ chunking.pc = "create"
    /\ Len(chunking.chunks) < Len(chunking.groupedUnits)
    /\ LET groups == chunking.groupedUnits
           i == Len(chunking.chunks) + 1
       IN  IF extractCitationsThrows(engine)
           THEN chunking' = [chunking EXCEPT !.pc = "thrown"]
           ELSE chunking' = [chunking EXCEPT !.chunks = Append(@,
                   createChunk(book.id, groups[i], i - 1,
                       IF i > 1 THEN Some(groups[i - 1]) ELSE Absent,
                       IF i < Len(groups) THEN Some(groups[i + 1]) ELSE Absent,
                       chunking.opts))]
    /\ UNCHANGED <<indexVars, routerVars, buildVars, redis, openai, load,
                   loadsCompleted, chunkFiles, book, engine>>

\* return chunks
ChunkBookReturn ==
    /\ chunking.pc = "create"
    /\ Len(chunking.chunks) = Len(chunking.groupedUnits)
    /\ chunking' = [chunking EXCEPT !.pc = "returned"]
    /\ UNCHANGED <<indexVars, routerVars, buildVars, redis, openai, load,
                   loadsCompleted, chunkFiles, book, engine>>

\* chunkBook() called once more with the same book and options; the chunks
\* of the first call are kept by the caller
ChunkBookAgain ==
    /\ chunking.pc = "returned"
    /\ chunking.previous = Absent
    /\ chunking' = [IdleChunking EXCEPT !.previous = Some(chunking.chunks)]
    /\ UNCHANGED <<indexVars, routerVars, buildVars, redis, openai, load,
                   loadsCompleted, chunkFiles, book, engine>>

\* chunking: chunkBook() called on any book, at most twice
InitChunk ==
    /\ masterIndex = Absent
    /\ bookIndexes = EmptyMap
    /\ chunkIndexes = EmptyMap
    /\ chunksCache = EmptyMap
    /\ redis = FALSE
    /\ openai = FALSE
    /\ cache = EmptyMap
    /\ call = [c \in Callers |-> IdleCall]
    /\ load = IdleLoad
    /\ loadsCompleted = 0
    /\ disk = DiskOf(1)
    /\ chunkFiles = ChunkFiles
    /\ build = IdleBuild
    /\ nCalls = 0
    /\ nBuilds = 0
    /\ prev = Absent
    /\ book \in Books \cup ScenarioBooks
    /\ chunking = IdleChunking
    /\ engine \in {"es2020", "legacy"}

NextChunk == ChunkBook \/ CreateChunk \/ ChunkBookReturn \/ ChunkBookAgain

SpecChunk == InitChunk /\ [][NextChunk]_vars

(***************************************************************************)
(* route() run alone: the result of one call made when no other call is   *)
(* in flight and no request fails, and the result cache after it          *)
(***************************************************************************)
With(store, key, value) ==
    [k \in DOMAIN store \cup {key} |-> IF k = key THEN value ELSE store[k]]

routeAlone(q, opts, store) ==
    LET key == CacheKey(q)
        caching == opts.useCache /\ redis
        queryEmbedding == IF openai THEN Some(EmbeddingOf(q)) ELSE Absent
        queryKeywords == extractQueryKeywords(QueryText(q))
        relevantBooks == searchMasterIndex(masterIndex[1], queryEmbedding,
                                           queryKeywords)
        sectionCandidates ==
            IF relevantBooks = <<>> THEN <<>>
            ELSE searchBookIndexes(relevantBooks, queryEmbedding, queryKeywords,
                                   bookIndexes)
        chunks == retrieveChunks(sectionCandidates, opts.maxTokens, EmptyMap,
                                 chunkFiles).chunks
        result ==
            [query |-> q,
             books |-> relevantBooks,
             sections |-> sectionCandidates,
             chunks |-> chunks,
             totalTokens |-> TotalTokens(chunks),
             confidence |-> calculateConfidence(chunks, queryKeywords),
             fromCache |-> FALSE,
             strategy |-> "HierarchicalRouting"]
    IN  IF caching /\ key \in DOMAIN store
        THEN [result |-> [store[key] EXCEPT !.fromCache = TRUE], store |-> store]
        ELSE IF sectionCandidates = <<>>
        THEN [result |-> createEmptyResult(q), store |-> store]
        ELSE [result |-> result,
              store |-> IF caching THEN With(store, key, JsonRoundTrip(result))
                        ELSE store]

(***************************************************************************)
(* Properties                                                              *)
(***************************************************************************)
Returned(c) == call[c].pc = "returned"

\* the call ran with the result cache enabled and reachable, and no entry
\* for its query expired meanwhile
Caching(c) == call[c].opts.useCache /\ redis /\ call[c].cacheOk

\* C1: a call route(query, {maxTokens: M}) that returns, fresh or from the
\* result cache, returns totalTokens (the sum of its chunks' token counts)
\* of at most M
C1_TotalTokensWithinBudget ==
    \A c \in Callers :
        /\ Returned(c)
        /\ "maxTokens" \in DOMAIN call[c].options
        /\ call[c].options.maxTokens # Absent
        => /\ call[c].result.totalTokens <= call[c].options.maxTokens[1]
           /\ TotalTokens(call[c].result.chunks) <= call[c].options.maxTokens[1]

\* C2: a call without a token budget (no options, or maxTokens undefined)
\* returns totalTokens of at most 900000
C2_DefaultBudget ==
    \A c \in Callers :
        /\ Returned(c)
        /\ "maxTokens" \in DOMAIN call[c].options => call[c].options.maxTokens = Absent
        => call[c].result.totalTokens <= MAX_CONTEXT_TOKENS

\* C3: once loadIndexes has completed route() never throws, and a call
\* that finds no book or no section returns the NoResults result: confidence
\* 0, totalTokens 0, empty books, sections and chunks
C3_NeverThrowsOnceLoaded ==
    \A c \in Callers :
        call[c].loadedAtCall =>
            /\ call[c].pc # "thrown"
            /\ /\ Returned(c)
               /\ ~call[c].result.fromCache
               /\ call[c].books = <<>> \/ call[c].sections = <<>>
               => call[c].result = createEmptyResult(call[c].query)

\* C4: a route() call made before any index load completed never returns a
\* Route Result
C4_ErrorBeforeFirstLoad ==
    \A c \in Callers : Returned(c) => call[c].loadedAtCall

\* the call follows, with caching on both sides, an earlier call for the
\* same query, and neither overlapped another call for that query
Repeated(c) ==
    /\ Returned(c)
    /\ Caching(c)
    /\ call[c].pred # Absent
    /\ call[c].pred[1].cached

ServedAgain(c) ==
    /\ call[c].result.fromCache
    /\ call[c].result.chunks = call[c].pred[1].chunks

C6_LoadAtomic ==
    \A c \in Callers :
        call[c].sawMaster # Absent =>
            \E v \in Versions :
                /\ call[c].sawMaster = DiskOf(v).master
                /\ call[c].sawBooks = DiskOf(v).books

\* C7: route() leaves the loaded indexes as they were, and two calls in
\* flight together return the chunk sequences they return run one after
\* the other, in one order or the other
C7_ConcurrentAsSerial ==
    /\ <<masterIndex, bookIndexes, chunkIndexes>> =
           <<DiskOf(1).master, DiskOf(1).books, DiskOf(1).chunks>>
    /\ /\ nCalls = 2
       /\ \A c \in Callers : Returned(c) /\ call[c].cacheOk
       => \E c \in Callers, d \in Callers :
             /\ c # d
             /\ LET first == routeAlone(call[c].query, call[c].opts, EmptyMap)
                    second == routeAlone(call[d].query, call[d].opts, first.store)
                IN  /\ call[c].result.chunks = first.result.chunks
                    /\ call[d].result.chunks = second.result.chunks

\* C8: a loadIndexes issued after a failed build loads a set that some
\* build wrote in full, and a build that completes, retried or not, leaves
\* on disk the index set of its input
C8_FailedBuildHasNoEffect ==
    /\ load.pc = "done" /\ load.afterFailedBuild =>
          \E v \in Versions, t \in 0..MaxBuilds :
              /\ masterIndex = IndexSet(v, t).master
              /\ bookIndexes = IndexSet(v, t).books
              /\ chunkIndexes = IndexSet(v, t).chunks
    /\ build.pc = "done" => disk = IndexSet(build.input, build.created)

\* C9: two calls that write the result cache under the same key write the
\* same value
C9_SameKeySameValue ==
    \A c \in Callers, d \in Callers :
        /\ call[c].wrote # Absent
        /\ call[d].wrote # Absent
        /\ CacheKey(call[c].query) = CacheKey(call[d].query)
        => call[c].wrote = call[d].wrote

\* C10: chunkBook returns chunks whose primary contents, one after the
\* other, are the sections of the book, each once and in the book's order
C10_EverySectionOnce ==
    chunking.pc \in {"returned", "thrown"} =>
        /\ chunking.pc = "returned"
        /\ Flatten([i \in 1..Len(chunking.chunks) |-> chunking.chunks[i].content])
              = [i \in 1..Len(book.sections) |-> book.sections[i].index]

C12_AlwaysSomeChunk ==
    chunking.pc \in {"returned", "thrown"} /\ book.sections # <<>> =>
        /\ chunking.pc = "returned"
        /\ chunking.chunks # <<>>

\* the groups groupUnitsIntoChunks made of the parts of a split unit
PartsOf(unit) ==
    SelectSeq(chunking.groupedUnits,
              LAMBDA g : /\ g[1].id.part > 0
                         /\ g[1].id.type = unit.id.type
                         /\ g[1].id.n = unit.id.n)

\* C13: a unit above maxTokens is split into at least two parts, each of at
\* most 80% of maxTokens, whose sections in order are the unit's sections
C13_LargeUnitSplit ==
    chunking.pc = "create" =>
        \A u \in 1..Len(chunking.semanticUnits) :
            LET unit == chunking.semanticUnits[u]
                parts == PartsOf(unit)
            IN  unit.tokenCount > chunking.opts.maxTokens =>
                   /\ Len(parts) >= 2
                   /\ \A p \in 1..Len(parts) :
                         100 * parts[p][1].tokenCount
                            <= SplitTargetPercent * chunking.opts.maxTokens
                   /\ Flatten([p \in 1..Len(parts) |-> parts[p][1].sections])
                         = unit.sections

\* C14: chunkBook on the twelve-section scenario book returns at least two
\* chunks, none of them above 75,000 tokens
C14_ScenarioBook ==
    chunking.pc \in {"returned", "thrown"} /\ book \in ScenarioBooks =>
        /\ chunking.pc = "returned"
        /\ Len(chunking.chunks) >= 2
        /\ \A i \in 1..Len(chunking.chunks) :
              chunking.chunks[i].tokenCount <= 75000

\* the ids of a chunk list, in order
IdsOf(chunks) == [i \in 1..Len(chunks) |-> chunks[i].id]

\* the sections of the book that make a chunk's primary content
ContentSections(chunk) ==
    [i \in 1..Len(chunk.content) |-> book.sections[chunk.content[i]]]

Undated(index) == [f \in DOMAIN index \ {"created"} |-> index[f]]

\* C16: every buildAllIndexes call on the same books and chunks returns the
\* Book Indexes and the Master Index of the first call, created timestamps
\* aside, compressed or not, and the input chunks are after each build what
\* they were before the first
C16_BuildIdempotent ==
    /\ build.memory = build.given.mem
    /\ \A n \in 1..Len(build.returned) :
          /\ Undated(build.returned[n].masterIndex)
                = Undated(build.returned[1].masterIndex)
          /\ Len(build.returned[n].bookIndexes)
                = Len(build.returned[1].bookIndexes)
          /\ \A b \in 1..Len(build.returned[n].bookIndexes) :
                Undated(build.returned[n].bookIndexes[b])
                   = Undated(build.returned[1].bookIndexes[b])

\* a second build has returned, the first one having compressed a Book Index
\* and the Master Index
C16_Witness ==
    /\ Len(build.returned) >= 2
    /\ build.returned[1].masterIndex.books[1].summary.len = 100
    /\ build.returned[1].bookIndexes[1].chunks[1].summary.len = 50
    /\ build.returned[1].bookIndexes[1].thematicMap # <<>>

\* C17: the confidence of every result route() returns is a number in
\* [0, 1], 0 when the result has no chunk, and otherwise
\* min(1, 0.3 * min(chunkCount / 10, 1) + 0.4 * coverage + 0.3 * alignment)
C17_ConfidenceInUnitInterval ==
    \A c \in Callers :
        Returned(c) =>
            LET result == call[c].result
                confidence == result.confidence
            IN  /\ confidence.kind = "number"
                /\ 0 <= confidence.num /\ confidence.num <= confidence.den
                /\ result.chunks = <<>> => confidence.num = 0
                /\ result.chunks # <<>> /\ ~result.fromCache =>
                      confidence = calculateConfidence(result.chunks,
                                       extractQueryKeywords(QueryText(result.query)))

\* the Level-2 score of the candidate section of a result that lists the chunk
SectionScore(result, chunk) ==
    LET k == CHOOSE n \in 1..Len(result.sections) :
                 /\ result.sections[n].bookId = chunk.bookId
                 /\ chunk.id \in Range(result.sections[n].chunkIds)
                 /\ \A m \in 1..(n - 1) :
                       \/ result.sections[m].bookId # chunk.bookId
                       \/ chunk.id \notin Range(result.sections[m].chunkIds)
    IN  result.sections[k].score

\* C18: in every returned result a chunk's section scores at least as much
\* as the section of any chunk after it, and every chunk carries the
\* reference string of the stored chunk
C18_ChunksByDescendingScore ==
    \A c \in Callers :
        Returned(c) =>
            LET result == call[c].result
            IN  /\ \A i, j \in 1..Len(result.chunks) :
                      i < j => SectionScore(result, result.chunks[i])
                                  >= SectionScore(result, result.chunks[j])
                /\ \A i \in 1..Len(result.chunks) :
                      result.chunks[i].reference =
                          ChunkFiles[<<result.chunks[i].bookId,
                                       result.chunks[i].id>>].reference

\* a returned result holds chunks of two sections with different scores
C18_Witness ==
    \E c \in Callers :
        /\ Returned(c)
        /\ \E i, j \in 1..Len(call[c].result.chunks) :
              SectionScore(call[c].result, call[c].result.chunks[i])
                 > SectionScore(call[c].result, call[c].result.chunks[j])

\* the candidates as an index would list them that names stored chunks only
Stored(candidates) ==
    [n \in 1..Len(candidates) |->
        [candidates[n] EXCEPT !.chunkIds =
            SelectSeq(@, LAMBDA id : <<candidates[n].bookId, id>> \in DOMAIN ChunkFiles)]]

Missing(candidates) == Stored(candidates) # candidates

\* C19: a call whose candidate sections list a chunk that is not in the store
\* does not fail, and returns the chunks, in the order, that it returns when
\* the sections list the stored chunks only
C19_MissingChunkSkipped ==
    \A c \in Callers :
        /\ call[c].pc = "thrown" => call[c].sections = <<>>
        /\ Returned(c) /\ ~call[c].result.fromCache =>
              call[c].result.chunks =
                  retrieveChunks(Stored(call[c].result.sections),
                                 call[c].opts.maxTokens, EmptyMap, ChunkFiles).chunks

\* a returned result holds the stored chunk of a section that also lists a
\* chunk absent from the store
C19_Witness ==
    \E c \in Callers :
        /\ Returned(c)
        /\ ~call[c].result.fromCache
        /\ \E n \in 1..Len(call[c].result.sections) :
              LET listed == call[c].result.sections[n]
              IN  /\ Missing(<<listed>>)
                  /\ \E i \in 1..Len(call[c].result.chunks) :
                        /\ call[c].result.chunks[i].bookId = listed.bookId
                        /\ call[c].result.chunks[i].id \in Range(listed.chunkIds)

\* C20: every route() call whose embedding request is in flight eventually
\* completes, whether the provider answers, fails or stays silent
C20_RouteCompletes ==
    \A c \in Callers :
        (call[c].pc = "embed") ~> (call[c].pc \in {"returned", "thrown"})

\* C21: every Book Index buildAllIndexes returns has an estimated size of at
\* most 200,000 tokens and every Master Index one of at most 100,000
C21_IndexesWithinBudget ==
    \A n \in 1..Len(build.returned) :
        /\ estimateIndexSize(MasterIndexStrings(build.returned[n].masterIndex))
              <= 100000
        /\ \A b \in 1..Len(build.returned[n].bookIndexes) :
              estimateIndexSize(BookIndexStrings(build.returned[n].bookIndexes[b]))
                 <= 200000

\* the similarity of two chunk indexes as they are returned
SimilarityOf(e, other) ==
    Similarity(e.themes, e.keywords, other.themes, other.keywords)

AboveThreshold(x) == x # NotANumber /\ 10 * x.num > 3 * x.den

\* C22: the relatedChunks of every chunk index hold at most 5 ids, never the
\* chunk's own, only ids of chunks of the same book, each with a similarity
\* above 0.3, and no chunk of the book left out is more similar than one
\* that is included
C22_RelatedChunks ==
    \A n \in 1..Len(build.returned) :
        LET entries == build.returned[n].chunkIndexes
            ById(id) == entries[CHOOSE j \in 1..Len(entries) :
                                   entries[j].chunkId = id]
        IN  \A i \in 1..Len(entries) :
               LET e == entries[i]
                   related == Range(e.relatedChunks)
               IN  /\ Len(e.relatedChunks) <= 5
                   /\ e.chunkId \notin related
                   /\ \A id \in related :
                         /\ ById(id).bookId = e.bookId
                         /\ AboveThreshold(SimilarityOf(e, ById(id)))
                   /\ \A j \in 1..Len(entries) :
                         /\ entries[j].bookId = e.bookId
                         /\ entries[j].chunkId \notin related \cup {e.chunkId}
                         /\ AboveThreshold(SimilarityOf(e, entries[j]))
                         => \A id \in related :
                               SimilarityOf(e, ById(id)).num
                                  >= SimilarityOf(e, entries[j]).num

\* the positions a route() call passes through, in order
RouteOrder ==
    {<<"idle", "cacheCheck">>, <<"idle", "embed">>,
     <<"cacheCheck", "returned">>, <<"cacheCheck", "embed">>,
     <<"embed", "search">>,
     <<"search", "returned">>, <<"search", "level3">>, <<"search", "thrown">>,
     <<"level3", "cacheWrite">>, <<"level3", "returned">>,
     <<"cacheWrite", "returned">>,
     <<"returned", "idle">>, <<"thrown", "idle">>}

\* C23: every step of a route() call follows the order CacheCheck, Level 1,
\* Level 2, Level 3, confidence scoring: a cache hit returns the cached
\* result with no search and no chunk read; the search finds sections only
\* in books it found, and goes on to Level 3 exactly when it found a
\* section; chunks are read only in Level 3 of a call that has a section;
\* the exit without a match returns the empty result, reads no chunk and
\* writes nothing to the cache, which only the step after Level 3 writes
C23_RouteOrder ==
    [][\A c \in Callers :
          call'[c].pc # call[c].pc =>
             /\ <<call[c].pc, call'[c].pc>> \in RouteOrder
             /\ call[c].pc = "cacheCheck" /\ call'[c].pc = "returned" =>
                   /\ call'[c].result.fromCache
                   /\ call'[c].sawMaster = Absent
                   /\ call'[c].books = <<>> /\ call'[c].sections = <<>>
                   /\ chunksCache' = chunksCache /\ cache' = cache
             /\ call[c].pc = "search" =>
                   /\ call'[c].sections # <<>> => call'[c].books # <<>>
                   /\ call'[c].pc = "level3" <=> call'[c].sections # <<>>
                   /\ call'[c].pc = "returned" =>
                         call'[c].result = createEmptyResult(call[c].query)
                   /\ chunksCache' = chunksCache /\ cache' = cache
             /\ call[c].pc = "level3" =>
                   /\ call[c].sections # <<>>
                   /\ cache' = cache
                   /\ call'[c].result.books = call[c].books
                   /\ call'[c].result.sections = call[c].sections
             /\ chunksCache' # chunksCache => call[c].pc = "level3"
             /\ cache' # cache => call[c].pc = "cacheWrite"]_vars

\* a call with the result cache in use has left the search without a match
\* and returned
C23_Witness ==
    \E c \in Callers :
        /\ Returned(c)
        /\ Caching(c)
        /\ call[c].sawMaster # Absent
        /\ call[c].result.strategy = "NoResults"
        /\ CacheKey(call[c].query) \notin DOMAIN cache

\* a call whose Level 3 has run
Retrieved(c) ==
    /\ call[c].pc \in {"cacheWrite", "returned"}
    /\ ~call[c].result.fromCache
    /\ call[c].result.strategy = "HierarchicalRouting"

\* the chunks of the candidates' sections as the store holds them, in the
\* order Level 3 meets them
Stream(c) ==
    Flatten([i \in 1..Len(call[c].sections) |->
        loadChunksForSection(call[c].sections[i].bookId,
                             call[c].sections[i].chunkIds, EmptyMap, chunkFiles)])

C25_EarlyStop ==
    \A c \in Callers :
        Retrieved(c) /\ call[c].opts.maxTokens # Absent =>
            \A k \in 2..Len(call[c].result.chunks) :
                10 * TotalTokens(SubSeq(call[c].result.chunks, 1, k - 1))
                    <= 8 * call[c].opts.maxTokens[1]

Descending(list) ==
    \A i \in 1..Len(list) : \A j \in i..Len(list) : list[i].score >= list[j].score

\* 0.3 * lexical + 0.3 * thematic + 0.4 * semantic of a book of the master
\* index, in thousandths
CombinedScore(master, b, queryEmbedding, queryKeywords) ==
    LET lexical == RefsOf(master.searchIndex, queryKeywords)
        thematic == RefsOf(master.thematicMap, queryKeywords)
        embedded == SelectSeq(SemanticBooks(master, queryEmbedding),
                              LAMBDA x : x.id = b)
    IN  3 * SumSeq([i \in 1..Len(lexical) |->
                IF lexical[i].bookId = b THEN lexical[i].count ELSE 0])
        + 3 * SumSeq([i \in 1..Len(thematic) |->
                IF thematic[i].bookId = b THEN thematic[i].weight ELSE 0])
        + 4 * (IF embedded = <<>> THEN 0
               ELSE MaxOf([i \in 1..Len(embedded[1].keywordEmbeddings[1]) |->
                       cosineSimilarity(queryEmbedding[1],
                                        embedded[1].keywordEmbeddings[1][i])]))

\* C26: the books of every result are at most 3, each with its combined
\* score, above the floor 0.1, in descending order, and no book of the
\* master index left out scores higher than one that is listed; the
\* sections are at most 10, at most 5 of any one book, all of listed books,
\* in descending order
C26_CandidatesBoundedAndOrdered ==
    \A c \in Callers :
        Returned(c) =>
            LET books == call[c].result.books
                sections == call[c].result.sections
                listed == {books[i].bookId : i \in 1..Len(books)}
            IN  /\ Len(books) <= 3
                /\ Descending(books)
                /\ \A i \in 1..Len(books) : books[i].score > 100
                /\ ~call[c].result.fromCache /\ call[c].sawMaster # Absent =>
                      LET master == call[c].sawMaster[1]
                          Score(b) == CombinedScore(master, b, call[c].queryEmbedding,
                                                    call[c].queryKeywords)
                      IN  /\ \A i \in 1..Len(books) :
                                books[i].score = Score(books[i].bookId)
                          /\ \A n \in 1..Len(master.books) :
                                master.books[n].id \notin listed
                                /\ call[c].result.strategy # "NoResults" =>
                                   \A i \in 1..Len(books) :
                                       Score(master.books[n].id) <= books[i].score
                /\ Len(sections) <= 10
                /\ Descending(sections)
                /\ \A b \in listed :
                      Cardinality({k \in 1..Len(sections) : sections[k].bookId = b})
                         <= 5
                /\ \A k \in 1..Len(sections) : sections[k].bookId \in listed

\* a result lists 3 of the 4 books that pass the floor and 10 of their 11
\* sections that do, 5 of them of the book with 6
C26_Witness ==
    \E c \in Callers :
        /\ Returned(c)
        /\ Len(call[c].result.books) = 3
        /\ Len(call[c].result.sections) = 10
        /\ \A n \in 1..Len(call[c].sawMaster[1].books) :
              CombinedScore(call[c].sawMaster[1], call[c].sawMaster[1].books[n].id,
                            call[c].queryEmbedding, call[c].queryKeywords) > 100
        /\ Cardinality({k \in 1..10 : call[c].result.sections[k].bookId = "lm"}) = 5

\* C27: a result route() returns without a chunk has the strategy
\* NoResults, and the result cache holds no entry without a chunk
C27_EmptyMeansNoResults ==
    /\ \A c \in Callers :
          Returned(c) /\ call[c].result.chunks = <<>> =>
              call[c].result.strategy = "NoResults"
    /\ \A key \in DOMAIN cache : cache[key].chunks # <<>>

\* what route(query) with these merged options computes from the indexes
\* in memory and the chunk store as they are now, without an embedding
FreshResult(query, opts) ==
    LET queryKeywords == extractQueryKeywords(QueryText(query))
        books == searchMasterIndex(masterIndex[1], Absent, queryKeywords)
        sections == IF books = <<>> THEN <<>>
                    ELSE searchBookIndexes(books, Absent, queryKeywords,
                                           bookIndexes)
    IN  IF sections = <<>> THEN createEmptyResult(query)
        ELSE [books |-> books, sections |-> sections,
              chunks |-> retrieveChunks(sections, opts.maxTokens, EmptyMap,
                                        chunkFiles).chunks]

\* the call was made after the last loadIndexes() call completed, a reload,
\* and no loadIndexes() call has run since
AfterReload(c) ==
    /\ load.pc = "done"
    /\ call[c].loadsAtCall = loadsCompleted
    /\ loadsCompleted > 1

\* C28: a route() call made after a reload completed returns the books,
\* sections and chunks that a computation from the indexes now in memory and
\* the chunk store returns, also when it is served from the result cache
C28_NothingStaleAfterReload ==
    \A c \in Callers :
        Returned(c) /\ AfterReload(c)
        /\ ~searchMasterIndexThrows(masterIndex, extractQueryKeywords(
                                        QueryText(call[c].query))) =>
            LET fresh == FreshResult(call[c].query, call[c].opts)
            IN  /\ call[c].result.books = fresh.books
                /\ call[c].result.sections = fresh.sections
                /\ call[c].result.chunks = fresh.chunks

\* C29: after a reload completed the index set in memory is the persisted
\* set: the master index, and the book ids of bookIndexes and chunkIndexes,
\* each with its file's content
C29_MemoryIsPersistedSet ==
    load.pc = "done" /\ loadsCompleted > 1 =>
        /\ masterIndex = disk.master
        /\ DOMAIN bookIndexes = DOMAIN disk.books
        /\ DOMAIN chunkIndexes = DOMAIN disk.chunks
        /\ \A b \in DOMAIN disk.books : bookIndexes[b] = disk.books[b]
        /\ \A b \in DOMAIN disk.chunks : chunkIndexes[b] = disk.chunks[b]

\* C30: a reload that fails leaves the router, which was serving index set
\* 1, with index set 1 in memory
C30_FailedLoadChangesNothing ==
    load.pc = "failed" /\ loadsCompleted = 1 =>
        /\ masterIndex = DiskOf(1).master
        /\ bookIndexes = DiskOf(1).books
        /\ chunkIndexes = DiskOf(1).chunks

====
